---- MODULE Spec2Model ----
(***************************************************************************)
(* IntentTree (src/src/components/IntentTree.tsx): the tree builder        *)
(* (flattenTree), the layout engine (computeAutoLayout,                    *)
(* computeCustomLayout, links) and the viewport controller of the          *)
(* component, as state machines.                                           *)
(*                                                                         *)
(* Numbers of the viewport are exact rationals <<num, den>> (den > 0, in   *)
(* lowest terms); the layout works on integers.                            *)
(***************************************************************************)
EXTENDS Integers, Sequences, FiniteSets, TLC

VARIABLES
    tree,           \* the caller's hierarchy: [n |-> node count, kids |-> node -> children]
    props,          \* the component's props (layout, sizes, zoom limits, flags)
    collapsedSet,   \* keys whose children are not traversed
    flat,           \* flattenTree's frame: [stack, nodes, childrenById]
    computedNodes,  \* the layout's output
    links,          \* the derived (source, target) pairs
    pc,             \* position of the flatten -> layout -> links pipeline
    viewportUncontrolled,  \* the internal viewport {x, y, k}
    viewportProp,   \* the viewport prop of a controlled component
    svgSize,        \* the observed size {w, h} of the rendering surface
    dragRef,        \* the drag session {active, startX, startY, baseX, baseY, pointerId}
    wheelRafs,      \* the scheduled animation-frame callbacks of rafThrottle
    wheelPending,   \* whether the current onWheel instance has a frame scheduled
    selectedUncontrolled,  \* the internal selected id
    selectedProp,   \* the selectedId prop of a component with controlled selection
    collapsedUncontrolled, \* the internal collapsed ids, an array
    collapsedProp,  \* the collapsedIds prop of a component with controlled collapse
    scopeView,      \* what the last render derived from the selection: scope and lineage
    searchView,     \* the search box: [query, open, results]
    gesture,        \* the direction of the user's wheel gesture in progress, if any
    changes,        \* how many times the event handlers called setViewport
    calls,          \* the callbacks the last handler invoked, in order
    lastOp          \* the last handler that ran, with its arguments

treeVars == <<tree, props, collapsedSet, flat, computedNodes, links, pc>>

viewVars == <<viewportUncontrolled, viewportProp, svgSize, dragRef, wheelRafs,
              wheelPending, selectedUncontrolled, gesture, changes, calls, lastOp>>

uiVars == <<selectedProp, collapsedUncontrolled, collapsedProp, scopeView, searchView>>

vars == <<tree, props, collapsedSet, flat, computedNodes, links, pc,
          viewportUncontrolled, viewportProp, svgSize, dragRef, wheelRafs,
          wheelPending, selectedUncontrolled, gesture, changes, calls, lastOp,
          selectedProp, collapsedUncontrolled, collapsedProp, scopeView, searchView>>

-----------------------------------------------------------------------------
(* Bounds of the model *)

MaxNodes == 4

-----------------------------------------------------------------------------
(* Exact rational numbers <<numerator, denominator>>, denominator > 0 *)

Abs(n) == IF n < 0 THEN -n ELSE n

\* The arithmetic is written as functions of the operands, so that an operand
\* is a value wherever it is used

Rat == Int \X Int

GcdOf[a \in Nat, b \in Nat] == IF b = 0 THEN a ELSE GcdOf[b, a % b]

Gcd(a, b) == GcdOf[a, b]

NormOf[n \in Int, d \in Int] ==
    LET g == GcdOf[Abs(n), Abs(d)]
        sgn == IF d < 0 THEN -1 ELSE 1
    IN <<sgn * (n \div g), sgn * (d \div g)>>

Norm(n, d) == NormOf[n, d]

R(n) == <<n, 1>>

Frac(n, d) == Norm(n, d)

RAddOf[a \in Rat, b \in Rat] ==
    LET g == GcdOf[a[2], b[2]]
    IN NormOf[a[1] * (b[2] \div g) + b[1] * (a[2] \div g), a[2] * (b[2] \div g)]

RAdd(a, b) == RAddOf[a, b]

RNeg(a) == <<-a[1], a[2]>>

RSub(a, b) == RAdd(a, RNeg(b))

RMulOf[a \in Rat, b \in Rat] ==
    LET g1 == GcdOf[Abs(a[1]), b[2]]
        g2 == GcdOf[Abs(b[1]), a[2]]
    IN NormOf[(a[1] \div g1) * (b[1] \div g2), (a[2] \div g2) * (b[2] \div g1)]

RMul(a, b) == RMulOf[a, b]

RInvOf[b \in Rat] == NormOf[b[2], b[1]]

\* a / b for b # 0
RDiv(a, b) == RMul(a, RInvOf[b])

RLeOf[a \in Rat, b \in Rat] == a[1] * b[2] <= b[1] * a[2]

RLe(a, b) == RLeOf[a, b]

RLt(a, b) == ~RLeOf[b, a]

RMinOf[a \in Rat, b \in Rat] == IF RLeOf[a, b] THEN a ELSE b

RMin(a, b) == RMinOf[a, b]

RMaxOf[a \in Rat, b \in Rat] == IF RLeOf[a, b] THEN b ELSE a

RMax(a, b) == RMaxOf[a, b]

-----------------------------------------------------------------------------
(* Sequence helpers *)

RECURSIVE SeqFilter(_, _)
SeqFilter(s, keep) ==
    IF s = <<>> THEN <<>>
    ELSE IF keep[Head(s)] THEN <<Head(s)>> \o SeqFilter(Tail(s), keep)
         ELSE SeqFilter(Tail(s), keep)

Reverse(s) == [i \in 1..Len(s) |-> s[Len(s) + 1 - i]]

Range(s) == {s[i] : i \in 1..Len(s)}

RECURSIVE SortedSeqOf(_)
SortedSeqOf(S) ==
    IF S = {} THEN <<>>
    ELSE LET m == CHOOSE x \in S : \A y \in S : x <= y
         IN <<m>> \o SortedSeqOf(S \ {m})

-----------------------------------------------------------------------------
(* Keys and the caller's accessors *)

null == "null"

Undefined == 0

KeyStr == <<"1", "2", "3", "4", "5", "6", "7", "8", "9", "10", "11", "12", "13", "14",
           "15", "16">>

toKey(v) == KeyStr[v]

Keys == {toKey(v) : v \in 1..MaxNodes}

getId(node) == node

isDefined(v) == v # Undefined

\* getChildren of the caller: the children in accessor order; with
\* props.sparseChildren a leaf answers null and an inner node's array holds
\* undefined entries between its children.
getChildren(t, sparse, node) ==
    LET kids == t.kids[node]
    IN IF ~sparse THEN [isNull |-> FALSE, items |-> kids]
       ELSE IF kids = <<>> THEN [isNull |-> TRUE, items |-> <<>>]
       ELSE [isNull |-> FALSE,
             items |-> [i \in 1..(2 * Len(kids)) |->
                          IF i % 2 = 1 THEN Undefined ELSE kids[i \div 2]]]

\* The well-formed hierarchies over 1..n with root 1: every node but the root
\* has one parent of a smaller number, children listed in ascending order.
TreeOf(n, parent) ==
    [n    |-> n,
     kids |-> [i \in 1..n |-> SortedSeqOf({j \in 2..n : parent[j] = i})]]

Trees ==
    UNION { { TreeOf(n, p) : p \in {q \in [2..n -> 1..n] : \A j \in 2..n : q[j] < j} }
            : n \in 1..MaxNodes }

-----------------------------------------------------------------------------
(* flattenTree *)

FlattenStart(root) ==
    [stack        |-> << [node |-> root, parentId |-> null, depth |-> 0] >>,
     nodes        |-> <<>>,
     childrenById |-> <<>>]

\* Map.set on a map kept as a function over its keys
MapSet(m, k, v) == [x \in (DOMAIN m) \cup {k} |-> IF x = k THEN v ELSE m[x]]

MapGet(m, k, dflt) == IF k \in DOMAIN m THEN m[k] ELSE dflt

\* Mutant: the collapsed set is ignored, every node's children are traversed.
VisitedChildrenIgnoresCollapsed(t, sparse, collapsedKeys, node) ==
    LET raw == getChildren(t, sparse, node)
        rawChildren == IF raw.isNull THEN <<>> ELSE raw.items
    IN SeqFilter(rawChildren, [v \in Range(rawChildren) |-> isDefined(v)])

\* The children the loop goes on to visit: none for a collapsed id, else the
\* defined entries of the accessor's answer (null answers as empty).
VisitedChildren(t, sparse, collapsedKeys, node) ==
    LET isCollapsed == toKey(getId(node)) \in collapsedKeys
        raw == IF isCollapsed THEN [isNull |-> FALSE, items |-> <<>>]
               ELSE getChildren(t, sparse, node)
        rawChildren == IF raw.isNull THEN <<>> ELSE raw.items
    IN SeqFilter(rawChildren, [v \in Range(rawChildren) |-> isDefined(v)])

\* nodes.push({ id, parentId, data, depth })
EmitFlatNode(nodes, cur) ==
    Append(nodes, [id |-> toKey(getId(cur.node)), parentId |-> cur.parentId,
                   data |-> cur.node, depth |-> cur.depth])

\* Mutant: the children index is built back to front.
ChildIdsReversed(children) ==
    [i \in 1..Len(children) |-> toKey(getId(children[Len(children) + 1 - i]))]

\* childIds = children.map(toKey . getId)
ChildIdsOf(children) ==
    [i \in 1..Len(children) |-> toKey(getId(children[i]))]

\* Mutant: the children are pushed under their grandparent.
PushChildrenWrongParent(children, cur, id) ==
    [i \in 1..Len(children) |->
        [node |-> children[Len(children) + 1 - i],
         parentId |-> IF cur.parentId = null THEN id ELSE cur.parentId,
         depth |-> cur.depth + 1]]

\* The stack entries of the children, last child first (popped first-child first)
PushChildren(children, cur, id) ==
    [i \in 1..Len(children) |->
        [node |-> children[Len(children) + 1 - i],
         parentId |-> id, depth |-> cur.depth + 1]]

\* Mutant: a child whose id was emitted before is not pushed again.
FlattenIterSkipsSeen(t, sparse, collapsedKeys, st) ==
    LET cur == st.stack[Len(st.stack)]
        rest == SubSeq(st.stack, 1, Len(st.stack) - 1)
        id == toKey(getId(cur.node))
        seen == {st.nodes[i].id : i \in 1..Len(st.nodes)} \cup {id}
        all == VisitedChildren(t, sparse, collapsedKeys, cur.node)
        children == SeqFilter(all, [c \in Range(all) |-> toKey(getId(c)) \notin seen])
    IN [stack        |-> rest \o PushChildren(children, cur, id),
        nodes        |-> EmitFlatNode(st.nodes, cur),
        childrenById |-> MapSet(st.childrenById, id, ChildIdsOf(children))]

\* One iteration of the while loop: pop, emit the flat node, index and push
\* the children.
FlattenIter(t, sparse, collapsedKeys, st) ==
    LET cur == st.stack[Len(st.stack)]
        rest == SubSeq(st.stack, 1, Len(st.stack) - 1)
        id == toKey(getId(cur.node))
        children == VisitedChildren(t, sparse, collapsedKeys, cur.node)
    IN [stack        |-> rest \o PushChildren(children, cur, id),
        nodes        |-> EmitFlatNode(st.nodes, cur),
        childrenById |-> MapSet(st.childrenById, id, ChildIdsOf(children))]

\* The loop run to its end (the hierarchy is finite and acyclic)
RECURSIVE FlattenRun(_, _, _, _)
FlattenRun(t, sparse, collapsedKeys, st) ==
    IF st.stack = <<>> THEN st
    ELSE FlattenRun(t, sparse, collapsedKeys, FlattenIter(t, sparse, collapsedKeys, st))

\* orderById: id -> 0-based position in the flat sequence (the last one wins)
OrderById(nodes) ==
    [k \in {nodes[i].id : i \in 1..Len(nodes)} |->
        (CHOOSE i \in 1..Len(nodes) :
            nodes[i].id = k /\ \A j \in 1..Len(nodes) : nodes[j].id = k => j <= i) - 1]

-----------------------------------------------------------------------------
(* Layout engine *)

\* arr.sort((a, b) => orderById(a) - orderById(b)): a stable insertion sort
RECURSIVE InsertByOrder(_, _, _)
InsertByOrder(sorted, n, orderById) ==
    IF sorted = <<>> THEN <<n>>
    ELSE IF MapGet(orderById, n.id, 0) < MapGet(orderById, Head(sorted).id, 0)
         THEN <<n>> \o sorted
         ELSE <<Head(sorted)>> \o InsertByOrder(Tail(sorted), n, orderById)

RECURSIVE SortByOrder(_, _)
SortByOrder(arr, orderById) ==
    IF arr = <<>> THEN <<>>
    ELSE InsertByOrder(SortByOrder(SubSeq(arr, 1, Len(arr) - 1), orderById),
                       arr[Len(arr)], orderById)

\* byDepth.get(d): the flat nodes of depth d, sorted by traversal position
ByDepth(nodes, orderById, d) ==
    SortByOrder(SeqFilter(nodes, [n \in Range(nodes) |-> n.depth = d]), orderById)

\* siblings.findIndex((x) => x.id === id), 0-based, -1 when absent
FindIndex(arr, id) ==
    IF \E i \in 1..Len(arr) : arr[i].id = id
    THEN (CHOOSE i \in 1..Len(arr) :
             arr[i].id = id /\ \A j \in 1..(i - 1) : arr[j].id # id) - 1
    ELSE -1

\* order of the auto layout: the index among the nodes of the same depth
AutoOrder(nodes, orderById, n) ==
    LET idx == FindIndex(ByDepth(nodes, orderById, n.depth), n.id)
    IN IF idx >= 0 THEN idx ELSE 0

\* Mutant: horizontal swaps the axes and keeps the vertical spacings.
AutoPositionSwapsOnly(depth, order, orientation, nodeWidth, nodeHeight, levelGap, siblingGap) ==
    LET primary == depth * (nodeHeight + levelGap)
        secondary == order * (nodeWidth + siblingGap)
    IN [x |-> IF orientation = "vertical" THEN secondary ELSE primary,
        y |-> IF orientation = "vertical" THEN primary ELSE secondary]

\* primary / secondary and their assignment to x and y
AutoPosition(depth, order, orientation, nodeWidth, nodeHeight, levelGap, siblingGap) ==
    LET primary == depth * (IF orientation = "vertical" THEN nodeHeight + levelGap
                            ELSE nodeWidth + levelGap)
        secondary == order * (IF orientation = "vertical" THEN nodeWidth + siblingGap
                              ELSE nodeHeight + siblingGap)
    IN [x |-> IF orientation = "vertical" THEN secondary ELSE primary,
        y |-> IF orientation = "vertical" THEN primary ELSE secondary]

computeAutoLayout(nodes, orderById, childrenById, p) ==
    [i \in 1..Len(nodes) |->
        LET n == nodes[i]
            order == AutoOrder(nodes, orderById, n)
            pos == AutoPosition(n.depth, order, p.orientation, p.nodeWidth,
                                p.nodeHeight, p.levelGap, p.siblingGap)
        IN [id |-> n.id, parentId |-> n.parentId, data |-> n.data, depth |-> n.depth,
            order |-> order, x |-> pos.x, y |-> pos.y,
            childrenIds |-> MapGet(childrenById, n.id, <<>>)]]

\* The caller's position functions the model draws getNodePosition from
NodePositionFns == {"grid", "fan", "pile"}

getNodePosition(fn, node, id, depth, order, parentId) ==
    CASE fn = "grid" -> [x |-> order * 5, y |-> depth * 4]
      [] fn = "fan"  -> [x |-> depth - 2 * order, y |-> order]
      [] OTHER       -> [x |-> 0, y |-> 0]

computeCustomLayout(nodes, orderById, childrenById, fn) ==
    [i \in 1..Len(nodes) |->
        LET n == nodes[i]
            order == MapGet(orderById, n.id, 0)
            pos == getNodePosition(fn, n.data, n.id, n.depth, order, n.parentId)
        IN [id |-> n.id, parentId |-> n.parentId, data |-> n.data, depth |-> n.depth,
            order |-> order, x |-> pos.x, y |-> pos.y,
            childrenIds |-> MapGet(childrenById, n.id, <<>>)]]

UsesCustomLayout(p) == p.layout = "custom" /\ p.getNodePosition # "none"

\* nodeById: id -> computed node (the last one of an id wins)
NodeById(computed) ==
    [k \in {computed[i].id : i \in 1..Len(computed)} |->
        computed[CHOOSE i \in 1..Len(computed) :
            computed[i].id = k /\ \A j \in 1..Len(computed) : computed[j].id = k => j <= i]]

\* links: one { source: parent, target: node } per node whose parentId is set
\* and found in nodeById
LinksOf(computed) ==
    LET nodeById == NodeById(computed)
        linked == SeqFilter(computed,
                     [n \in Range(computed) |->
                        n.parentId # null /\ n.parentId \in DOMAIN nodeById])
    IN [i \in 1..Len(linked) |->
           [source |-> nodeById[linked[i].parentId], target |-> linked[i]]]

-----------------------------------------------------------------------------
(* The pipeline root -> flattenTree -> layout -> links, on every well-formed
   hierarchy, collapsed set and layout configuration within the bounds *)

\* Number.POSITIVE_INFINITY and the finite numbers a depth limit is compared to
Infinity == [inf |-> TRUE, n |-> 0]

Num(n) == [inf |-> FALSE, n |-> n]

\* The ids of the set S as an array, in the order of the node ids
IdsOf(S) == SeqFilter(KeyStr, [k \in Range(KeyStr) |-> k \in S])

\* The props' defaults of the component
BaseProps ==
    [layout |-> "auto", orientation |-> "vertical", getNodePosition |-> "none",
     nodeWidth |-> 220, nodeHeight |-> 64, levelGap |-> 90, siblingGap |-> 28,
     padding |-> 40, autoFit |-> TRUE,
     zoomable |-> TRUE, pannable |-> TRUE, disabled |-> FALSE,
     minZoom |-> Frac(1, 4), maxZoom |-> Frac(5, 2),
     viewportControlled |-> FALSE,
     defaultViewport |-> [x |-> R(0), y |-> R(0), k |-> R(1)],
     miniMapWidth |-> 220, miniMapHeight |-> 140, miniMapPadding |-> 12,
     collapsible |-> TRUE, collapsedControlled |-> FALSE, defaultCollapsedIds |-> <<>>,
     selectable |-> TRUE, selectedControlled |-> FALSE, defaultSelectedId |-> null,
     scopeMode |-> "full", scopeDepth |-> Infinity,
     lineageHighlight |-> TRUE, highlightAncestors |-> TRUE,
     highlightDescendants |-> TRUE, highlightSiblings |-> TRUE,
     searchable |-> TRUE, searchMinChars |-> 2, getSearchText |-> "none"]

LayoutSizes ==
    { [nodeWidth |-> 200, nodeHeight |-> 60, levelGap |-> 90, siblingGap |-> 20],
      [nodeWidth |-> 220, nodeHeight |-> 64, levelGap |-> 90, siblingGap |-> 28],
      [nodeWidth |-> 3, nodeHeight |-> 2, levelGap |-> 1, siblingGap |-> 1] }

WithSizes(p, s) ==
    [p EXCEPT !.nodeWidth = s.nodeWidth, !.nodeHeight = s.nodeHeight,
              !.levelGap = s.levelGap, !.siblingGap = s.siblingGap]

LayoutProps ==
    { [WithSizes(BaseProps, s) EXCEPT !.layout = l, !.orientation = o, !.getNodePosition = g] :
      l \in {"auto", "custom"}, o \in {"vertical", "horizontal"},
      g \in {"none", "grid"}, s \in LayoutSizes }

\* The selection, collapse and search side at rest, with the collapsed ids given
UiAtRest(p, collapsed) ==
    /\ selectedProp = p.defaultSelectedId
    /\ collapsedUncontrolled = IdsOf(collapsed)
    /\ collapsedProp = IdsOf(collapsed)
    /\ scopeView = [rendered |-> FALSE]
    /\ searchView = [query |-> <<>>, open |-> FALSE, results |-> <<>>]

\* The viewport side at rest: nothing dragged, nothing scheduled, nothing called
ViewAtRest(p) ==
    /\ viewportUncontrolled = p.defaultViewport
    /\ viewportProp = p.defaultViewport
    /\ svgSize = [w |-> 1, h |-> 1]
    /\ dragRef = [active |-> FALSE, startX |-> 0, startY |-> 0,
                  baseX |-> R(0), baseY |-> R(0), pointerId |-> null]
    /\ wheelRafs = <<>>
    /\ wheelPending = FALSE
    /\ selectedUncontrolled = p.defaultSelectedId
    /\ gesture = "none"
    /\ changes = 0
    /\ calls = <<>>
    /\ lastOp = [name |-> "mount"]

InitLayout ==
    /\ \E t \in Trees, sparse \in BOOLEAN : tree = [n |-> t.n, kids |-> t.kids, sparse |-> sparse]
    /\ props \in LayoutProps
    /\ collapsedSet \in SUBSET Keys
    /\ flat = FlattenStart(1)
    /\ computedNodes = <<>>
    /\ links = <<>>
    /\ pc = "flatten"
    /\ ViewAtRest(props)
    /\ UiAtRest(props, collapsedSet)

\* while (stack.length) { ... }
FlattenLoop ==
    /\ pc = "flatten"
    /\ flat.stack # <<>>
    /\ flat' = FlattenIter(tree, tree.sparse, collapsedSet, flat)
    /\ UNCHANGED <<tree, props, collapsedSet, computedNodes, links, pc>>
    /\ UNCHANGED viewVars
    /\ UNCHANGED uiVars

\* layout === "custom" && getNodePosition: computeCustomLayout
LayoutCustom ==
    /\ pc = "flatten"
    /\ flat.stack = <<>>
    /\ UsesCustomLayout(props)
    /\ computedNodes' = computeCustomLayout(flat.nodes, OrderById(flat.nodes),
                                            flat.childrenById, props.getNodePosition)
    /\ pc' = "links"
    /\ UNCHANGED <<tree, props, collapsedSet, flat, links>>
    /\ UNCHANGED viewVars
    /\ UNCHANGED uiVars

\* otherwise computeAutoLayout
LayoutAuto ==
    /\ pc = "flatten"
    /\ flat.stack = <<>>
    /\ ~UsesCustomLayout(props)
    /\ computedNodes' = computeAutoLayout(flat.nodes, OrderById(flat.nodes),
                                          flat.childrenById, props)
    /\ pc' = "links"
    /\ UNCHANGED <<tree, props, collapsedSet, flat, links>>
    /\ UNCHANGED viewVars
    /\ UNCHANGED uiVars

BuildLinks ==
    /\ pc = "links"
    /\ links' = LinksOf(computedNodes)
    /\ pc' = "done"
    /\ UNCHANGED <<tree, props, collapsedSet, flat, computedNodes>>
    /\ UNCHANGED viewVars
    /\ UNCHANGED uiVars

NextLayout == FlattenLoop \/ LayoutCustom \/ LayoutAuto \/ BuildLinks

SpecLayout == InitLayout /\ [][NextLayout]_vars

-----------------------------------------------------------------------------
(* The hierarchy's own relations, read off the caller's data *)

TreeParent(t, j) == CHOOSE i \in 1..t.n : j \in Range(t.kids[i])

RECURSIVE TreeAncestors(_, _)
TreeAncestors(t, j) ==
    IF j = 1 THEN {}
    ELSE {TreeParent(t, j)} \cup TreeAncestors(t, TreeParent(t, j))

TreeDescendants(t, i) == {j \in 1..t.n : i \in TreeAncestors(t, j)}

\* A node is visited when none of its proper ancestors is collapsed
TreeVisited(t, collapsed, j) == \A a \in TreeAncestors(t, j) : toKey(a) \notin collapsed

FlatIds == {flat.nodes[i].id : i \in 1..Len(flat.nodes)}

FlattenDone == flat.stack = <<>>

-----------------------------------------------------------------------------
(* C1..C3: flattenTree *)

\* C1: when flattenTree has returned, every collapsed id that is visited is in
\* the flat output and none of its descendants in the hierarchy is.
C1_CollapseCorrectness ==
    FlattenDone =>
        \A n \in 1..tree.n :
            (toKey(n) \in collapsedSet /\ TreeVisited(tree, collapsedSet, n)) =>
                /\ toKey(n) \in FlatIds
                /\ \A d \in TreeDescendants(tree, n) : toKey(d) \notin FlatIds

\* a visited, collapsed inner node below the root, flattening finished
C1_Witness ==
    /\ pc = "done"
    /\ \E n \in 2..tree.n :
        /\ toKey(n) \in collapsedSet
        /\ TreeVisited(tree, collapsedSet, n)
        /\ TreeDescendants(tree, n) # {}
        /\ toKey(n) \in FlatIds

\* C2: the root has parentId null and depth 0; every other flat node's parentId
\* is the id of an earlier flat node of depth one less; links holds exactly one
\* (parent, child) link per non-root flat node.
C2_NoDanglingEdges ==
    pc = "done" =>
        /\ flat.nodes[1].parentId = null
        /\ flat.nodes[1].depth = 0
        /\ \A i \in 2..Len(flat.nodes) :
            \E j \in 1..(i - 1) :
                /\ flat.nodes[j].id = flat.nodes[i].parentId
                /\ flat.nodes[j].depth = flat.nodes[i].depth - 1
        /\ Len(links) = Len(flat.nodes) - 1
        /\ \A i \in 2..Len(flat.nodes) :
            \E k \in 1..Len(links) :
                /\ links[k].target.id = flat.nodes[i].id
                /\ links[k].source.id = flat.nodes[i].parentId
                /\ \A m \in 1..Len(links) : links[m].target.id = flat.nodes[i].id => m = k

\* a finished pass over three levels with a collapsed subtree elsewhere
C2_Witness ==
    /\ pc = "done"
    /\ Len(links) >= 2
    /\ \E i \in 1..Len(flat.nodes) : flat.nodes[i].depth = 2
    /\ \E n \in 1..tree.n : toKey(n) \in collapsedSet /\ toKey(n) \in FlatIds

\* C3: childrenById maps every visited id to the ids, in accessor order, of its
\* immediate children that were visited; the list is empty exactly when the
\* node is collapsed or a leaf.
C3_ChildrenIndex ==
    FlattenDone =>
        /\ DOMAIN flat.childrenById = FlatIds
        /\ FlatIds = {toKey(n) : n \in {m \in 1..tree.n : TreeVisited(tree, collapsedSet, m)}}
        /\ \A n \in 1..tree.n :
            TreeVisited(tree, collapsedSet, n) =>
                LET listed == flat.childrenById[toKey(n)]
                    kids == tree.kids[n]
                IN /\ listed = IF toKey(n) \in collapsedSet THEN <<>>
                               ELSE [i \in 1..Len(kids) |-> toKey(kids[i])]
                   /\ \A i \in 1..Len(listed) : listed[i] \in FlatIds
                   /\ (listed = <<>>) <=> (toKey(n) \in collapsedSet \/ kids = <<>>)

\* A -> [B, C], B -> [D] with B collapsed: flat output [A, B, C], childrenIndex[B] = []
C3_Witness ==
    /\ pc = "done"
    /\ tree.n = 4
    /\ tree.kids[1] = <<2, 3>> /\ tree.kids[2] = <<4>>
    /\ collapsedSet = {"2"}
    /\ [i \in 1..Len(flat.nodes) |-> flat.nodes[i].id] = <<"1", "2", "3">>
    /\ flat.childrenById["2"] = <<>>
    /\ flat.childrenById["1"] = <<"2", "3">>

-----------------------------------------------------------------------------
(* C4, C5: layout engine *)

LayoutDone == pc \in {"links", "done"}

DepthsOf(computed) == {computed[i].depth : i \in 1..Len(computed)}

OrdersAt(computed, d) ==
    {computed[i].order : i \in {j \in 1..Len(computed) : computed[j].depth = d}}

CountAt(computed, d) == Cardinality({j \in 1..Len(computed) : computed[j].depth = d})

\* C4 (as claimed, auto and custom layout alike): at every depth d the order
\* values are exactly 0..count(d)-1, without gaps or repeats, in traversal order.
C4_OrderContiguity ==
    LayoutDone =>
        \A d \in DepthsOf(computedNodes) :
            /\ OrdersAt(computedNodes, d) = 0..(CountAt(computedNodes, d) - 1)
            /\ \A i, j \in 1..Len(computedNodes) :
                (i < j /\ computedNodes[i].depth = d /\ computedNodes[j].depth = d)
                    => computedNodes[i].order < computedNodes[j].order

\* C5 (as claimed): horizontal assigns the vertical layout's two values with
\* the axes swapped.
C5_AxesSwappedOnly ==
    (LayoutDone /\ ~UsesCustomLayout(props)) =>
        \A i \in 1..Len(computedNodes) :
            LET n == computedNodes[i]
                primary == n.depth * (props.nodeHeight + props.levelGap)
                secondary == n.order * (props.nodeWidth + props.siblingGap)
            IN IF props.orientation = "vertical"
               THEN n.y = primary /\ n.x = secondary
               ELSE n.x = primary /\ n.y = secondary

\* C5 (amended): vertical has y = depth * (nodeHeight + levelGap) and
\* x = order * (nodeWidth + siblingGap); horizontal has
\* x = depth * (nodeWidth + levelGap) and y = order * (nodeHeight + siblingGap).
C5_AutoLayoutPositions ==
    (LayoutDone /\ ~UsesCustomLayout(props)) =>
        \A i \in 1..Len(computedNodes) :
            LET n == computedNodes[i]
            IN IF props.orientation = "vertical"
               THEN /\ n.y = n.depth * (props.nodeHeight + props.levelGap)
                    /\ n.x = n.order * (props.nodeWidth + props.siblingGap)
               ELSE /\ n.x = n.depth * (props.nodeWidth + props.levelGap)
                    /\ n.y = n.order * (props.nodeHeight + props.siblingGap)

\* a horizontal auto layout of A -> [B, C], B -> [D] with nodeWidth 200,
\* nodeHeight 60, levelGap 90, siblingGap 20: C sits at x = 290, y = 80
C5_Witness ==
    /\ pc = "done"
    /\ ~UsesCustomLayout(props)
    /\ props.orientation = "horizontal"
    /\ props.nodeWidth = 200 /\ props.nodeHeight = 60
    /\ props.levelGap = 90 /\ props.siblingGap = 20
    /\ Len(computedNodes) = 4
    /\ \E i \in 1..4 :
        /\ computedNodes[i].id = "3"
        /\ computedNodes[i].depth = 1 /\ computedNodes[i].order = 1
        /\ computedNodes[i].x = 290 /\ computedNodes[i].y = 80

-----------------------------------------------------------------------------
(* Viewport controller: the arithmetic *)

\* Math.max(min, Math.min(max, n))
clamp(n, min, max) == RMax(min, RMin(max, n))

\* The viewport the component renders: the prop when controlled
Viewport == IF props.viewportControlled THEN viewportProp ELSE viewportUncontrolled

\* clampedVp of setViewport
ClampedVp(next, p) ==
    [x |-> next.x, y |-> next.y, k |-> clamp(next.k, p.minZoom, p.maxZoom)]

\* svgSize.w || 1
OrOne(v) == IF v = 0 THEN 1 ELSE v

SetMin(S) == CHOOSE x \in S : \A y \in S : x <= y

SetMax(S) == CHOOSE x \in S : \A y \in S : y <= x

boundsOf(nodes, pad) ==
    IF Len(nodes) = 0 THEN [minX |-> -pad, minY |-> -pad, maxX |-> pad, maxY |-> pad]
    ELSE [minX |-> SetMin({nodes[i].x : i \in 1..Len(nodes)}) - pad,
          minY |-> SetMin({nodes[i].y : i \in 1..Len(nodes)}) - pad,
          maxX |-> SetMax({nodes[i].x : i \in 1..Len(nodes)}) + pad,
          maxY |-> SetMax({nodes[i].y : i \in 1..Len(nodes)}) + pad]

IntMax(a, b) == IF a >= b THEN a ELSE b

\* min(w / contentW, h / contentH) of fitToContent, before the clamp
FitScale(computed, p, size) ==
    LET b == boundsOf(computed, p.padding)
        contentW == IntMax(1, b.maxX - b.minX + p.nodeWidth)
        contentH == IntMax(1, b.maxY - b.minY + p.nodeHeight)
    IN RMin(Frac(OrOne(size.w), contentW), Frac(OrOne(size.h), contentH))

\* Mutant: the content is aligned to the top-left corner instead of centered.
FitViewportTopLeft(computed, p, size) ==
    LET b == boundsOf(computed, p.padding)
        k == clamp(FitScale(computed, p, size), p.minZoom, p.maxZoom)
    IN [x |-> RSub(R(p.padding), RMul(R(b.minX), k)),
        y |-> RSub(R(p.padding), RMul(R(b.minY), k)),
        k |-> k]

\* The viewport fitToContent hands to setViewport
FitViewport(computed, p, size) ==
    LET w == OrOne(size.w)
        h == OrOne(size.h)
        b == boundsOf(computed, p.padding)
        k == clamp(FitScale(computed, p, size), p.minZoom, p.maxZoom)
        cx == Frac(b.minX + b.maxX + p.nodeWidth, 2)
        cy == Frac(b.minY + b.maxY + p.nodeHeight, 2)
    IN [x |-> RSub(Frac(w, 2), RMul(cx, k)),
        y |-> RSub(Frac(h, 2), RMul(cy, k)),
        k |-> k]

\* Mutant: the node's corner, not its center, is brought to the center.
CenterViewportOnCorner(node, k0, p, size) ==
    LET k == clamp(k0, p.minZoom, p.maxZoom)
    IN [x |-> RSub(Frac(OrOne(size.w), 2), RMul(R(node.x), k)),
        y |-> RSub(Frac(OrOne(size.h), 2), RMul(R(node.y), k)),
        k |-> k]

\* The viewport centerOnNode hands to setViewport (kOverride ?? viewport.k given as k0)
CenterViewport(node, k0, p, size) ==
    LET w == OrOne(size.w)
        h == OrOne(size.h)
        k == clamp(k0, p.minZoom, p.maxZoom)
        cx == RAdd(R(node.x), Frac(p.nodeWidth, 2))
        cy == RAdd(R(node.y), Frac(p.nodeHeight, 2))
    IN [x |-> RSub(Frac(w, 2), RMul(cx, k)),
        y |-> RSub(Frac(h, 2), RMul(cy, k)),
        k |-> k]

\* Mutant: every wheel step zooms out.
WheelFactorAlwaysOut(deltaY) == Frac(92, 100)

\* const delta = -e.deltaY; const factor = delta > 0 ? 1.08 : 0.92
WheelFactor(deltaY) == IF -deltaY > 0 THEN Frac(108, 100) ELSE Frac(92, 100)

\* Mutant: the translation is kept while the scale changes.
WheelViewportKeepsTranslate(vp, e, p) ==
    [x |-> vp.x, y |-> vp.y,
     k |-> clamp(RMul(vp.k, WheelFactor(e.deltaY)), p.minZoom, p.maxZoom)]

\* The viewport the wheel callback hands to setViewport, from the viewport vp
\* of its closure and the pointer position (mx, my) relative to the surface
WheelViewport(vp, e, p) ==
    LET nextK == clamp(RMul(vp.k, WheelFactor(e.deltaY)), p.minZoom, p.maxZoom)
        wx == RDiv(RSub(R(e.mx), vp.x), vp.k)
        wy == RDiv(RSub(R(e.my), vp.y), vp.k)
    IN [x |-> RSub(R(e.mx), RMul(wx, nextK)),
        y |-> RSub(R(e.my), RMul(wy, nextK)),
        k |-> nextK]

doZoomIn(vp, p) ==
    [x |-> vp.x, y |-> vp.y, k |-> clamp(RMul(vp.k, Frac(112, 100)), p.minZoom, p.maxZoom)]

doZoomOut(vp, p) ==
    [x |-> vp.x, y |-> vp.y, k |-> clamp(RDiv(vp.k, Frac(112, 100)), p.minZoom, p.maxZoom)]

\* Mutant: reset asks for the lower zoom limit.
ResetViewportAtMinZoom(p) == [x |-> R(0), y |-> R(0), k |-> p.minZoom]

\* The viewport the Reset button hands to setViewport
ResetViewport(p) == [x |-> R(0), y |-> R(0), k |-> R(1)]

\* The viewport onPointerMove hands to setViewport
PanViewport(drag, e, vp) ==
    [x |-> RAdd(drag.baseX, R(e.clientX - drag.startX)),
     y |-> RAdd(drag.baseY, R(e.clientY - drag.startY)),
     k |-> vp.k]

\* mini: the minimap's scale and translation
Mini(computed, p) ==
    LET b == boundsOf(computed, p.padding)
        contentW == IntMax(1, b.maxX - b.minX + p.nodeWidth)
        contentH == IntMax(1, b.maxY - b.minY + p.nodeHeight)
        k == RMin(Frac(p.miniMapWidth - p.miniMapPadding * 2, contentW),
                  Frac(p.miniMapHeight - p.miniMapPadding * 2, contentH))
    IN [w |-> p.miniMapWidth, h |-> p.miniMapHeight, k |-> k,
        tx |-> RSub(R(p.miniMapPadding), RMul(R(b.minX), k)),
        ty |-> RSub(R(p.miniMapPadding), RMul(R(b.minY), k))]

\* The viewport onMiniMapClick hands to setViewport
MiniMapClickViewport(m, mini, size, vp) ==
    LET wx == RDiv(RSub(R(m.mx), mini.tx), mini.k)
        wy == RDiv(RSub(R(m.my), mini.ty), mini.k)
    IN [x |-> RSub(Frac(OrOne(size.w), 2), RMul(wx, vp.k)),
        y |-> RSub(Frac(OrOne(size.h), 2), RMul(wy, vp.k)),
        k |-> vp.k]

\* setViewport, called once per element of nexts in order: the internal
\* viewport is set when uncontrolled, onViewportChange gets every clamped
\* value; a controlling parent adopts the last value (adopt) or keeps its prop.
ViewportCalls(nexts) ==
    [i \in 1..Len(nexts) |-> [cb |-> "onViewportChange", arg |-> ClampedVp(nexts[i], props)]]

StoreViewports(nexts, adopt) ==
    LET clamped == [i \in 1..Len(nexts) |-> ClampedVp(nexts[i], props)]
    IN IF nexts = <<>>
       THEN UNCHANGED <<viewportUncontrolled, viewportProp>>
       ELSE IF props.viewportControlled
            THEN /\ UNCHANGED viewportUncontrolled
                 /\ viewportProp' = IF adopt THEN clamped[Len(nexts)] ELSE viewportProp
            ELSE /\ viewportUncontrolled' = clamped[Len(nexts)]
                 /\ UNCHANGED viewportProp

SetViewports(nexts, adopt) ==
    /\ calls' = ViewportCalls(nexts)
    /\ StoreViewports(nexts, adopt)

\* The parent's answers to onViewportChange the model draws from
Adopts == IF props.viewportControlled THEN BOOLEAN ELSE {TRUE}

\* A render with a new viewport object makes a new onWheel (useMemo on
\* viewport): its throttle starts with no frame scheduled
NewWheelInstance(nexts, adopt) ==
    nexts # <<>> /\ (~props.viewportControlled \/ adopt)

\* The state after the first render: the hierarchy flattened and laid out
Rendered(t, p, collapsed) ==
    LET f == FlattenRun(t, t.sparse, collapsed, FlattenStart(1))
        computed == IF UsesCustomLayout(p)
                    THEN computeCustomLayout(f.nodes, OrderById(f.nodes), f.childrenById,
                                             p.getNodePosition)
                    ELSE computeAutoLayout(f.nodes, OrderById(f.nodes), f.childrenById, p)
    IN [flat |-> f, computedNodes |-> computed, links |-> LinksOf(computed)]

-----------------------------------------------------------------------------
(* fitToContent on every node set, surface size, padding and zoom limits
   within the bounds *)

FitSizes == { [w |-> 1, h |-> 1], [w |-> 8, h |-> 6], [w |-> 30, h |-> 20] }

ZoomLimits ==
    { [minZoom |-> Frac(1, 4), maxZoom |-> Frac(5, 2)],
      [minZoom |-> Frac(1, 20), maxZoom |-> Frac(1, 2)],
      [minZoom |-> Frac(3, 2), maxZoom |-> R(2)] }

FitProps ==
    { [BaseProps EXCEPT !.layout = l.layout, !.getNodePosition = l.fn,
                        !.orientation = o, !.padding = pad,
                        !.nodeWidth = 3, !.nodeHeight = 2,
                        !.levelGap = 1, !.siblingGap = 1,
                        !.minZoom = z.minZoom, !.maxZoom = z.maxZoom,
                        !.viewportControlled = c] :
      l \in {[layout |-> "auto", fn |-> "none"], [layout |-> "custom", fn |-> "fan"],
             [layout |-> "custom", fn |-> "pile"]},
      o \in {"vertical", "horizontal"}, pad \in {0, 2},
      z \in ZoomLimits, c \in BOOLEAN }

InitFit ==
    /\ \E t \in Trees : tree = [n |-> t.n, kids |-> t.kids, sparse |-> FALSE]
    /\ props \in FitProps
    /\ collapsedSet \in {{}, {"2"}}
    /\ LET r == Rendered(tree, props, collapsedSet)
       IN flat = r.flat /\ computedNodes = r.computedNodes /\ links = r.links
    /\ pc = "done"
    /\ svgSize \in FitSizes
    /\ viewportUncontrolled = props.defaultViewport
    /\ viewportProp = props.defaultViewport
    /\ dragRef = [active |-> FALSE, startX |-> 0, startY |-> 0,
                  baseX |-> R(0), baseY |-> R(0), pointerId |-> null]
    /\ wheelRafs = <<>>
    /\ wheelPending = FALSE
    /\ selectedUncontrolled = props.defaultSelectedId
    /\ gesture = "none"
    /\ changes = 0
    /\ calls = <<>>
    /\ lastOp = [name |-> "mount"]
    /\ UiAtRest(props, collapsedSet)

\* fitToContent()
FitToContent ==
    /\ lastOp.name # "fit"
    /\ \E adopt \in Adopts :
        LET nexts == << FitViewport(computedNodes, props, svgSize) >>
        IN /\ SetViewports(nexts, adopt)
           /\ wheelPending' = IF NewWheelInstance(nexts, adopt) THEN FALSE ELSE wheelPending
    /\ lastOp' = [name |-> "fit"]
    /\ UNCHANGED treeVars
    /\ UNCHANGED uiVars
    /\ UNCHANGED <<svgSize, dragRef, wheelRafs, selectedUncontrolled, gesture, changes>>

NextFit == FitToContent

SpecFit == InitFit /\ [][NextFit]_vars

\* The screen rectangle of a node under viewport vp lies in [0, w] x [0, h]
RectInside(n, vp, p, size) ==
    LET left == RAdd(RMul(R(n.x), vp.k), vp.x)
        top == RAdd(RMul(R(n.y), vp.k), vp.y)
        right == RAdd(left, RMul(R(p.nodeWidth), vp.k))
        bottom == RAdd(top, RMul(R(p.nodeHeight), vp.k))
    IN /\ RLe(R(0), left) /\ RLe(left, right) /\ RLe(right, R(size.w))
       /\ RLe(R(0), top) /\ RLe(top, bottom) /\ RLe(bottom, R(size.h))

\* C10 (as claimed): after fitToContent every node's screen rectangle lies
\* inside the viewport rectangle, for every node set, size, padding and limits.
C10_FitContainment ==
    lastOp.name = "fit" =>
        \A i \in 1..Len(computedNodes) :
            RectInside(computedNodes[i], calls[1].arg, props, svgSize)

\* C10 (amended): the same when padding >= 0, 0 < minZoom <= maxZoom and the
\* clamp does not raise the fit scale:
\* minZoom <= min(viewportW / contentW, viewportH / contentH).
C10_FitContainmentUnlessRaised ==
    ( /\ lastOp.name = "fit"
      /\ props.padding >= 0
      /\ RLt(R(0), props.minZoom) /\ RLe(props.minZoom, props.maxZoom)
      /\ RLe(props.minZoom, FitScale(computedNodes, props, svgSize)) ) =>
        \A i \in 1..Len(computedNodes) :
            RectInside(computedNodes[i], calls[1].arg, props, svgSize)

\* a fit of three or more nodes whose scale the clamp left alone or lowered
C10_Witness ==
    /\ lastOp.name = "fit"
    /\ Len(computedNodes) >= 3
    /\ props.padding > 0
    /\ RLe(props.minZoom, FitScale(computedNodes, props, svgSize))
    /\ RLt(calls[1].arg.k, FitScale(computedNodes, props, svgSize))
    /\ ~props.viewportControlled
    /\ viewportUncontrolled = calls[1].arg

-----------------------------------------------------------------------------
(* The viewport controller: the mounted component under wheel, pointer,
   toolbar, minimap and search events *)

MaxRafs == 1

MaxDen == 25

MaxChanges == 1

\* The values of a viewport stay within the model's range
BoundedR(a) == a[2] <= MaxDen

Bounded(vp) == BoundedR(vp.x) /\ BoundedR(vp.y) /\ BoundedR(vp.k)

\* The handler's calls of setViewport stay within the model's horizon
WithinHorizon(nexts) ==
    /\ changes + Len(nexts) <= MaxChanges
    /\ \A i \in 1..Len(nexts) : Bounded(ClampedVp(nexts[i], props))

ViewSize == [w |-> 6, h |-> 4]

ViewBase ==
    [BaseProps EXCEPT !.nodeWidth = 4, !.nodeHeight = 2, !.levelGap = 2, !.siblingGap = 2,
                      !.padding = 1, !.miniMapWidth = 10, !.miniMapHeight = 8,
                      !.miniMapPadding = 1]

ViewZoomLimits ==
    { [minZoom |-> Frac(1, 4), maxZoom |-> Frac(5, 2)],
      [minZoom |-> Frac(9, 10), maxZoom |-> Frac(6, 5)],
      [minZoom |-> Frac(3, 2), maxZoom |-> R(2)] }

ViewFlags ==
    { [zoomable |-> TRUE, pannable |-> TRUE, disabled |-> FALSE],
      [zoomable |-> FALSE, pannable |-> TRUE, disabled |-> FALSE],
      [zoomable |-> TRUE, pannable |-> FALSE, disabled |-> FALSE],
      [zoomable |-> TRUE, pannable |-> TRUE, disabled |-> TRUE] }

DefaultViewports ==
    { [x |-> R(0), y |-> R(0), k |-> R(1)], [x |-> R(1), y |-> R(0), k |-> R(3)] }

ViewProps ==
    { [ViewBase EXCEPT !.minZoom = z.minZoom, !.maxZoom = z.maxZoom,
                       !.viewportControlled = c, !.autoFit = a] :
      z \in ViewZoomLimits, c \in BOOLEAN, a \in BOOLEAN }
    \cup
    { [ViewBase EXCEPT !.zoomable = f.zoomable, !.pannable = f.pannable,
                       !.disabled = f.disabled] : f \in ViewFlags }
    \cup
    { [ViewBase EXCEPT !.minZoom = z.minZoom, !.maxZoom = z.maxZoom,
                       !.autoFit = FALSE, !.defaultViewport = d] :
      z \in ViewZoomLimits, d \in DefaultViewports }

\* A root with two children
ViewTree == TreeOf(3, <<0, 1, 1>>)

PointerSpots == { [x |-> 1, y |-> 2], [x |-> 4, y |-> 2] }

WheelEvents == { [mx |-> s.x, my |-> s.y, deltaY |-> d] : s \in PointerSpots, d \in {-1, 1} }

PointerEvents ==
    { [clientX |-> s.x, clientY |-> s.y, pointerId |-> 1, target |-> t] :
      s \in PointerSpots, t \in {"canvas", "node", "toolbar", "minimap"} }

MiniMapEvents == { [mx |-> s.x, my |-> s.y] : s \in PointerSpots }

\* The first render: state initialised from the props, effects not yet run
Init ==
    /\ tree = [n |-> ViewTree.n, kids |-> ViewTree.kids, sparse |-> FALSE]
    /\ props \in ViewProps
    /\ collapsedSet = {}
    /\ LET r == Rendered(tree, props, collapsedSet)
       IN flat = r.flat /\ computedNodes = r.computedNodes /\ links = r.links
    /\ pc = "done"
    /\ ViewAtRest(props)
    /\ UiAtRest(props, collapsedSet)

\* The effects of the first render: the surface is measured, and with autoFit
\* fitToContent runs with the svgSize of the first render
MountEffects ==
    /\ pc = "done"
    /\ pc' = "idle"
    /\ svgSize' = ViewSize
    /\ \E adopt \in Adopts :
        LET nexts == IF props.autoFit
                     THEN << FitViewport(computedNodes, props, svgSize) >>
                     ELSE <<>>
        IN SetViewports(nexts, adopt)
    /\ UNCHANGED changes
    /\ lastOp' = [name |-> "effects"]
    /\ UNCHANGED <<tree, props, collapsedSet, flat, computedNodes, links>>
    /\ UNCHANGED uiVars
    /\ UNCHANGED <<dragRef, wheelRafs, wheelPending, selectedUncontrolled, gesture>>

\* A handler that hands the viewports nexts to setViewport, in order
Handles(name, nexts) ==
    /\ pc = "idle"
    /\ WithinHorizon(nexts)
    /\ changes' = changes + Len(nexts)
    /\ \E adopt \in Adopts :
        /\ SetViewports(nexts, adopt)
        /\ wheelPending' = IF NewWheelInstance(nexts, adopt) THEN FALSE ELSE wheelPending
    /\ lastOp' = [name |-> name]
    /\ UNCHANGED treeVars
    /\ UNCHANGED uiVars
    /\ UNCHANGED <<svgSize, gesture>>

\* The wheel listener: the throttle of the current onWheel keeps the last event
\* and schedules one frame callback, which closes over the current viewport;
\* the model holds up to cap scheduled callbacks
WheelEventWithin(e, cap) ==
    /\ pc = "idle"
    /\ IF wheelPending
       THEN /\ wheelRafs[Len(wheelRafs)].args # e
            /\ wheelRafs' = [wheelRafs EXCEPT ![Len(wheelRafs)].args = e]
       ELSE /\ Len(wheelRafs) < cap
            /\ wheelRafs' = Append(wheelRafs, [vp |-> Viewport, args |-> e])
    /\ wheelPending' = TRUE
    /\ calls' = <<>>
    /\ lastOp' = [name |-> "wheel"]
    /\ UNCHANGED treeVars
    /\ UNCHANGED uiVars
    /\ UNCHANGED <<viewportUncontrolled, viewportProp, svgSize, dragRef,
                   selectedUncontrolled, gesture, changes>>

\* The wheel listener with up to MaxRafs frame callbacks scheduled
WheelEvent(e) == WheelEventWithin(e, MaxRafs)

\* The viewports the scheduled wheel callbacks hand to setViewport, in order
WheelNexts(rafs) ==
    IF ~props.zoomable \/ props.disabled
    THEN <<>>
    ELSE [i \in 1..Len(rafs) |-> WheelViewport(rafs[i].vp, rafs[i].args, props)]

\* Every scheduled wheel callback runs, in the order they were scheduled
RunFrame ==
    /\ pc = "idle"
    /\ wheelRafs # <<>>
    /\ \E adopt \in Adopts : SetViewports(WheelNexts(wheelRafs), adopt)
    /\ wheelRafs' = <<>>
    /\ wheelPending' = FALSE
    /\ lastOp' = [name |-> "frame", ran |-> wheelRafs]
    /\ UNCHANGED treeVars
    /\ UNCHANGED uiVars
    /\ UNCHANGED <<svgSize, dragRef, selectedUncontrolled, gesture>>

\* An animation frame
AnimationFrame ==
    /\ WithinHorizon(WheelNexts(wheelRafs))
    /\ changes' = changes + Len(WheelNexts(wheelRafs))
    /\ RunFrame

onPointerDown(e) ==
    /\ Handles("pointerDown", <<>>)
    /\ dragRef' = IF ~props.pannable \/ props.disabled \/ e.target # "canvas"
                  THEN dragRef
                  ELSE [active |-> TRUE, startX |-> e.clientX, startY |-> e.clientY,
                        baseX |-> Viewport.x, baseY |-> Viewport.y,
                        pointerId |-> e.pointerId]
    /\ UNCHANGED <<wheelRafs, selectedUncontrolled>>

onPointerMove(e) ==
    /\ Handles("pointerMove",
               IF ~dragRef.active \/ props.disabled
               THEN <<>>
               ELSE << PanViewport(dragRef, e, Viewport) >>)
    /\ UNCHANGED <<dragRef, wheelRafs, selectedUncontrolled>>

\* Mutant: only the pointer that started the drag ends it.
onPointerUpOfSamePointer(e) ==
    /\ Handles("pointerUp", <<>>)
    /\ dragRef' = IF ~dragRef.active \/ dragRef.pointerId # e.pointerId
                  THEN dragRef
                  ELSE [dragRef EXCEPT !.active = FALSE, !.pointerId = null]
    /\ UNCHANGED <<wheelRafs, selectedUncontrolled>>

onPointerUp(e) ==
    /\ Handles("pointerUp", <<>>)
    /\ dragRef' = IF ~dragRef.active
                  THEN dragRef
                  ELSE [dragRef EXCEPT !.active = FALSE, !.pointerId = null]
    /\ UNCHANGED <<wheelRafs, selectedUncontrolled>>

\* The toolbar's buttons, which the browser keeps from firing while disabled
FitButton ==
    /\ ~props.disabled
    /\ Handles("fit", << FitViewport(computedNodes, props, svgSize) >>)
    /\ UNCHANGED <<dragRef, wheelRafs, selectedUncontrolled>>

ResetButton ==
    /\ ~props.disabled
    /\ Handles("reset", << ResetViewport(props) >>)
    /\ UNCHANGED <<dragRef, wheelRafs, selectedUncontrolled>>

ZoomInButton ==
    /\ ~(props.disabled \/ ~props.zoomable)
    /\ Handles("zoomIn", << doZoomIn(Viewport, props) >>)
    /\ UNCHANGED <<dragRef, wheelRafs, selectedUncontrolled>>

ZoomOutButton ==
    /\ ~(props.disabled \/ ~props.zoomable)
    /\ Handles("zoomOut", << doZoomOut(Viewport, props) >>)
    /\ UNCHANGED <<dragRef, wheelRafs, selectedUncontrolled>>

onMiniMapClick(m) ==
    /\ Handles("miniMapClick",
               IF props.disabled
               THEN <<>>
               ELSE << MiniMapClickViewport(m, Mini(computedNodes, props), svgSize, Viewport) >>)
    /\ UNCHANGED <<dragRef, wheelRafs, selectedUncontrolled>>

Next ==
    \/ MountEffects
    \/ \E e \in WheelEvents : WheelEvent(e)
    \/ AnimationFrame
    \/ \E e \in PointerEvents : onPointerDown(e)
    \/ \E e \in PointerEvents : onPointerMove(e)
    \/ \E e \in PointerEvents : onPointerUp(e)
    \/ FitButton
    \/ ResetButton
    \/ ZoomInButton
    \/ ZoomOutButton
    \/ \E m \in MiniMapEvents : onMiniMapClick(m)

Spec == Init /\ [][Next]_vars

\* The handlers that call setViewport themselves, without the wheel's throttle
NextDirect ==
    \/ MountEffects
    \/ \E e \in PointerEvents : onPointerDown(e)
    \/ \E e \in PointerEvents : onPointerMove(e)
    \/ \E e \in PointerEvents : onPointerUp(e)
    \/ FitButton
    \/ ResetButton
    \/ ZoomInButton
    \/ ZoomOutButton
    \/ \E m \in MiniMapEvents : onMiniMapClick(m)

SpecDirect == Init /\ [][NextDirect]_vars

-----------------------------------------------------------------------------
(* A wheel gesture that keeps one direction, with the frames it schedules,
   from viewports inside, on and outside the zoom limits *)

\* Zoom limits, first scale and direction of the gesture: the limit of the
\* direction is a few wheel steps away
ZoomCases ==
    { [minZoom |-> Frac(1, 4), maxZoom |-> Frac(5, 2), k |-> R(2), deltaY |-> -1],
      [minZoom |-> Frac(1, 4), maxZoom |-> Frac(5, 2), k |-> Frac(5, 2), deltaY |-> -1],
      [minZoom |-> Frac(1, 4), maxZoom |-> Frac(5, 2), k |-> R(3), deltaY |-> -1],
      [minZoom |-> Frac(1, 4), maxZoom |-> Frac(5, 2), k |-> Frac(3, 10), deltaY |-> 1],
      [minZoom |-> Frac(1, 4), maxZoom |-> Frac(5, 2), k |-> Frac(1, 5), deltaY |-> 1],
      [minZoom |-> Frac(9, 10), maxZoom |-> Frac(6, 5), k |-> R(1), deltaY |-> -1],
      [minZoom |-> Frac(9, 10), maxZoom |-> Frac(6, 5), k |-> R(1), deltaY |-> 1],
      [minZoom |-> Frac(3, 2), maxZoom |-> R(2), k |-> R(1), deltaY |-> 1],
      [minZoom |-> Frac(3, 2), maxZoom |-> R(2), k |-> Frac(7, 4), deltaY |-> -1],
      [minZoom |-> Frac(3, 2), maxZoom |-> R(2), k |-> Frac(7, 4), deltaY |-> 1] }

ZoomTranslations == { [x |-> R(0), y |-> R(0)], [x |-> R(3), y |-> R(-1)] }

InitZoom ==
    /\ tree = [n |-> ViewTree.n, kids |-> ViewTree.kids, sparse |-> FALSE]
    /\ \E c \in ZoomCases, t \in ZoomTranslations :
        /\ props = [ViewBase EXCEPT !.minZoom = c.minZoom, !.maxZoom = c.maxZoom,
                                    !.autoFit = FALSE,
                                    !.defaultViewport = [x |-> t.x, y |-> t.y, k |-> c.k]]
        /\ gesture = IF -c.deltaY > 0 THEN "in" ELSE "out"
    /\ collapsedSet = {}
    /\ LET r == Rendered(tree, props, collapsedSet)
       IN flat = r.flat /\ computedNodes = r.computedNodes /\ links = r.links
    /\ pc = "idle"
    /\ viewportUncontrolled = props.defaultViewport
    /\ viewportProp = props.defaultViewport
    /\ svgSize = ViewSize
    /\ dragRef = [active |-> FALSE, startX |-> 0, startY |-> 0,
                  baseX |-> R(0), baseY |-> R(0), pointerId |-> null]
    /\ wheelRafs = <<>>
    /\ wheelPending = FALSE
    /\ selectedUncontrolled = props.defaultSelectedId
    /\ changes = 0
    /\ calls = <<>>
    /\ lastOp = [name |-> "effects"]
    /\ UiAtRest(props, collapsedSet)

\* The next wheel event of the gesture
GestureWheel ==
    \E e \in WheelEvents :
        /\ gesture = (IF -e.deltaY > 0 THEN "in" ELSE "out")
        /\ WheelEvent(e)

\* The next animation frame
GestureFrame == RunFrame /\ UNCHANGED changes

NextZoom == GestureWheel \/ GestureFrame

\* requestAnimationFrame runs every callback it was given, and the gesture goes on
SpecZoom ==
    InitZoom /\ [][NextZoom]_vars /\ WF_vars(GestureWheel) /\ WF_vars(GestureFrame)

\* The world point under the screen point (px, py) with viewport vp
WorldPoint(px, py, vp) ==
    [x |-> RDiv(RSub(R(px), vp.x), vp.k), y |-> RDiv(RSub(R(py), vp.y), vp.k)]

\* C6: a wheel zoom step from a viewport with k > 0 keeps the world point
\* under the pointer: (p - translate) / k = (p - translate') / k'.
C6_ZoomAnchor ==
    lastOp.name = "frame" =>
        \A i \in 1..Len(calls) :
            LET before == lastOp.ran[i].vp
                e == lastOp.ran[i].args
                after == calls[i].arg
            IN RLt(R(0), before.k) =>
                WorldPoint(e.mx, e.my, before) = WorldPoint(e.mx, e.my, after)

\* a wheel step away from the origin that moved the translation, one that the
\* clamp cut short and one that changed the scale freely
C6_Witness ==
    /\ lastOp.name = "frame"
    /\ Len(calls) = 1
    /\ lastOp.ran[1].vp.x # R(0)
    /\ calls[1].arg.x # lastOp.ran[1].vp.x
    /\ calls[1].arg.k # lastOp.ran[1].vp.k
    /\ calls[1].arg.k = props.maxZoom
    /\ RLt(props.maxZoom, RMul(lastOp.ran[1].vp.k, WheelFactor(lastOp.ran[1].args.deltaY)))
    /\ viewportUncontrolled = calls[1].arg

\* The gesture's direction has reached its zoom limit
AtZoomLimit ==
    \/ gesture = "in" /\ Viewport.k = props.maxZoom
    \/ gesture = "out" /\ Viewport.k = props.minZoom

\* C8: repeated wheel steps in one direction eventually reach the limit of
\* that direction (maxZoom zooming in, minZoom zooming out), and from then on
\* every further step leaves x, y and k unchanged.
C8_ZoomSaturation ==
    /\ <>AtZoomLimit
    /\ [][AtZoomLimit => Viewport' = Viewport]_vars

\* a frame at the limit, several steps after a start inside the limits, that
\* ran a wheel step and left the viewport as it was
C8_Witness ==
    /\ lastOp.name = "frame"
    /\ AtZoomLimit
    /\ Len(calls) = 1
    /\ lastOp.ran[1].vp = Viewport
    /\ calls[1].arg = Viewport
    /\ RLt(props.minZoom, props.defaultViewport.k)
    /\ RLt(props.defaultViewport.k, props.maxZoom)
    /\ Viewport.x # props.defaultViewport.x

\* C7 (as claimed): the scale k lies in [minZoom, maxZoom] in every reachable
\* state, the initial one included.
C7_ScaleWithinLimits ==
    RLe(props.minZoom, Viewport.k) /\ RLe(Viewport.k, props.maxZoom)

\* The value setViewport was last given, as stored or handed to the parent
ResetResult == calls[1].arg

\* C9 (as claimed): reset sets the viewport to exactly {x: 0, y: 0, k: 1},
\* whatever the previous viewport and the zoom limits.
C9_ResetExact ==
    lastOp.name = "reset" =>
        /\ ResetResult = [x |-> R(0), y |-> R(0), k |-> R(1)]
        /\ ~props.viewportControlled => Viewport = ResetResult

\* C9 (amended): reset sets the viewport to exactly
\* {x: 0, y: 0, k: clamp(1, minZoom, maxZoom)}, whatever the previous viewport.
C9_ResetClamped ==
    lastOp.name = "reset" =>
        /\ ResetResult = [x |-> R(0), y |-> R(0),
                          k |-> RMax(props.minZoom, RMin(props.maxZoom, R(1)))]
        /\ ~props.viewportControlled => Viewport = ResetResult

\* a reset from a fitted viewport with 1 below the zoom limits
C9_Witness ==
    /\ lastOp.name = "reset"
    /\ props.autoFit
    /\ ~props.viewportControlled
    /\ RLt(R(1), props.minZoom)
    /\ Viewport = [x |-> R(0), y |-> R(0), k |-> props.minZoom]


-----------------------------------------------------------------------------
(* Scope and lineage: the parent/children indexes of the computed nodes, the
   four traversals, the scope set and the classification of a node *)

\* selectedId: the prop when controlled, else the internal state
SelectedId == IF props.selectedControlled THEN selectedProp ELSE selectedUncontrolled

\* collapsedIds: the prop when controlled, else the internal state
CollapsedIds == IF props.collapsedControlled THEN collapsedProp ELSE collapsedUncontrolled

\* parentById: id -> parentId of the computed node (the last one of an id wins)
ParentById(computed) ==
    [k \in DOMAIN NodeById(computed) |-> NodeById(computed)[k].parentId]

\* childrenById: id -> childrenIds of the computed node
ChildrenById(computed) ==
    [k \in DOMAIN NodeById(computed) |-> NodeById(computed)[k].childrenIds]

\* Mutant: the step limit is inclusive.
LtLimitInclusive(steps, limitSteps) == limitSteps.inf \/ steps <= limitSteps.n

\* steps < limitSteps
LtLimit(steps, limitSteps) == limitSteps.inf \/ steps < limitSteps.n

\* while (cur && steps < limitSteps) { p = parentById.get(cur) ?? null; ... }
RECURSIVE AncestorsLoop(_, _, _, _, _)
AncestorsLoop(parentBy, cur, steps, limitSteps, out) ==
    IF ~LtLimit(steps, limitSteps) THEN out
    ELSE LET p == MapGet(parentBy, cur, null)
         IN IF p = null THEN out
            ELSE AncestorsLoop(parentBy, p, steps + 1, limitSteps, out \cup {p})

collectAncestors(parentBy, id, limitSteps) ==
    IF id = null THEN {} ELSE AncestorsLoop(parentBy, id, 0, limitSteps, {})

\* while (stack.length) { cur = stack.pop(); if (cur.depth >= limitSteps) continue; ... }
RECURSIVE DescendantsLoop(_, _, _, _)
DescendantsLoop(childrenBy, stack, limitSteps, out) ==
    IF stack = <<>> THEN out
    ELSE LET cur == stack[Len(stack)]
             rest == SubSeq(stack, 1, Len(stack) - 1)
             kids == MapGet(childrenBy, cur.id, <<>>)
         IN IF ~LtLimit(cur.depth, limitSteps)
            THEN DescendantsLoop(childrenBy, rest, limitSteps, out)
            ELSE DescendantsLoop(childrenBy,
                    rest \o [i \in 1..Len(kids) |-> [id |-> kids[i], depth |-> cur.depth + 1]],
                    limitSteps, out \cup Range(kids))

collectDescendants(childrenBy, id, limitSteps) ==
    IF id = null THEN {}
    ELSE DescendantsLoop(childrenBy, << [id |-> id, depth |-> 0] >>, limitSteps, {})

\* The children of the parent, id itself left out; none without a parent
collectSiblings(parentBy, childrenBy, id) ==
    IF id = null THEN {}
    ELSE LET p == MapGet(parentBy, id, null)
         IN IF p = null THEN {}
            ELSE Range(MapGet(childrenBy, p, <<>>)) \ {id}

collectSiblingsChildren(childrenBy, siblings) ==
    UNION { Range(MapGet(childrenBy, s, <<>>)) : s \in siblings }

\* A Set of ids or null
NoSet == [isNull |-> TRUE, ids |-> {}]

SetOf(S) == [isNull |-> FALSE, ids |-> S]

\* Mutant: the siblings scope also takes the selected node's descendants.
scopeSetWithDescendants(mode, selectedKey, parentBy, ancestorsSet, descendantsSet, siblingsSet, siblingsChildrenSet) ==
    IF selectedKey = null \/ mode = "full" THEN NoSet
    ELSE IF mode = "asc" THEN SetOf({selectedKey} \cup ancestorsSet)
    ELSE IF mode = "desc" THEN SetOf({selectedKey} \cup descendantsSet)
    ELSE IF mode = "siblings"
         THEN LET p == MapGet(parentBy, selectedKey, null)
              IN SetOf({selectedKey} \cup (IF p # null THEN {p} ELSE {})
                       \cup descendantsSet \cup siblingsSet \cup siblingsChildrenSet)
    ELSE NoSet

\* Mutant: the scope set is built in mode full too.
scopeSetIgnoresFull(mode, selectedKey, parentBy, ancestorsSet, descendantsSet, siblingsSet, siblingsChildrenSet) ==
    IF selectedKey = null THEN NoSet
    ELSE IF mode = "asc" THEN SetOf({selectedKey} \cup ancestorsSet)
    ELSE IF mode = "desc" THEN SetOf({selectedKey} \cup descendantsSet)
    ELSE SetOf({selectedKey} \cup siblingsSet \cup siblingsChildrenSet)

\* scopeSet: null without a selection, in mode full and in an unknown mode
scopeSet(mode, selectedKey, parentBy, ancestorsSet, descendantsSet, siblingsSet, siblingsChildrenSet) ==
    IF selectedKey = null \/ mode = "full" THEN NoSet
    ELSE IF mode = "asc" THEN SetOf({selectedKey} \cup ancestorsSet)
    ELSE IF mode = "desc" THEN SetOf({selectedKey} \cup descendantsSet)
    ELSE IF mode = "siblings"
         THEN LET p == MapGet(parentBy, selectedKey, null)
              IN SetOf({selectedKey} \cup (IF p # null THEN {p} ELSE {})
                       \cup siblingsSet \cup siblingsChildrenSet)
    ELSE NoSet

scopedNodes(computed, scope) ==
    IF scope.isNull THEN computed
    ELSE SeqFilter(computed, [n \in Range(computed) |-> n.id \in scope.ids])

scopedLinks(lnks, scope) ==
    IF scope.isNull THEN lnks
    ELSE SeqFilter(lnks, [l \in Range(lnks) |->
                            l.source.id \in scope.ids /\ l.target.id \in scope.ids])

classifyNode(id, selectedKey, p, ancestorsSet, descendantsSet, siblingsSet) ==
    IF selectedKey = null \/ ~p.lineageHighlight
    THEN [isAncestor |-> FALSE, isDescendant |-> FALSE, isSibling |-> FALSE, isDimmed |-> FALSE]
    ELSE LET isAncestor == p.highlightAncestors /\ id \in ancestorsSet
             isDescendant == p.highlightDescendants /\ id \in descendantsSet
             isSibling == p.highlightSiblings /\ id \in siblingsSet
             isCore == id = selectedKey
             isRelated == isCore \/ isAncestor \/ isDescendant \/ isSibling
         IN [isAncestor |-> isAncestor, isDescendant |-> isDescendant,
             isSibling |-> isSibling, isDimmed |-> ~isRelated]

\* What a render derives from the computed nodes, the links and the selection:
\* the lineage sets, the scope set, the rendered nodes and links, and the
\* classification of every rendered node
ScopeView(computed, lnks, selectedId, p) ==
    LET selectedKey == selectedId
        parentBy == ParentById(computed)
        childrenBy == ChildrenById(computed)
        ancestorsSet == collectAncestors(parentBy, selectedKey, p.scopeDepth)
        descendantsSet == collectDescendants(childrenBy, selectedKey, p.scopeDepth)
        siblingsSet == collectSiblings(parentBy, childrenBy, selectedKey)
        siblingsChildrenSet == collectSiblingsChildren(childrenBy, siblingsSet)
        scope == scopeSet(p.scopeMode, selectedKey, parentBy, ancestorsSet,
                          descendantsSet, siblingsSet, siblingsChildrenSet)
        nodes == scopedNodes(computed, scope)
    IN [rendered |-> TRUE,
        selectedKey |-> selectedKey,
        ancestorsSet |-> ancestorsSet,
        descendantsSet |-> descendantsSet,
        siblingsSet |-> siblingsSet,
        siblingsChildrenSet |-> siblingsChildrenSet,
        scopeSet |-> scope,
        scopedNodes |-> nodes,
        scopedLinks |-> scopedLinks(lnks, scope),
        classes |-> [k \in {nodes[i].id : i \in 1..Len(nodes)} |->
                       classifyNode(k, selectedKey, p, ancestorsSet, descendantsSet,
                                    siblingsSet)]]


-----------------------------------------------------------------------------
(* Search: strings are sequences of characters of a small alphabet *)

Alphabet == {"a", "b", "A", "B", " "}

\* String.prototype.toLowerCase
toLowerCase(str) ==
    [i \in 1..Len(str) |-> CASE str[i] = "A" -> "a" [] str[i] = "B" -> "b" [] OTHER -> str[i]]

RECURSIVE TrimStart(_)
TrimStart(str) ==
    IF str # <<>> /\ Head(str) = " " THEN TrimStart(Tail(str)) ELSE str

\* String.prototype.trim
trim(str) == Reverse(TrimStart(Reverse(TrimStart(str))))

\* String.prototype.includes
includes(text, q) ==
    \E i \in 0..(Len(text) - Len(q)) : SubSeq(text, i + 1, i + Len(q)) = q

\* The caller's text accessors the model draws getSearchText from
SearchTextFns == {"same", "mixed"}

\* getSearchText of the caller, or defaultSearchText, which joins the parts the
\* label, subtitle, tag and date accessors give: none without accessors
getSearchText(fn, node) ==
    CASE fn = "same"  -> <<"A", "b">>
      [] fn = "mixed" -> (CASE node % 3 = 1 -> <<"A", "b", "a">>
                            [] node % 3 = 2 -> <<"a", " ", "B">>
                            [] OTHER        -> <<"b", "a">>)
      [] OTHER        -> <<>>

searchIndex(computed, fn) ==
    [i \in 1..Len(computed) |->
        [id |-> computed[i].id, node |-> computed[i].data,
         text |-> toLowerCase(getSearchText(fn, computed[i].data))]]

\* .slice(0, 12)
SearchMaxResults == 12

\* Mutant: the query is not trimmed before its length is taken.
SearchQueryUntrimmed(query) == toLowerCase(query)

\* q = query.trim().toLowerCase()
SearchQuery(query) == toLowerCase(trim(query))

results(query, p, index) ==
    IF ~p.searchable THEN <<>>
    ELSE LET q == SearchQuery(query)
             found == SeqFilter(index, [r \in Range(index) |-> includes(r.text, q)])
         IN IF Len(q) < p.searchMinChars THEN <<>>
            ELSE SubSeq(found, 1, IF Len(found) < SearchMaxResults THEN Len(found)
                                  ELSE SearchMaxResults)

-----------------------------------------------------------------------------
(* Selection, collapse and search handlers, each followed by the render and
   the effects it causes *)

\* Mutant: the internal selection is set although the parent controls it.
SetSelectedIdStoresControlled(next, adopt) ==
    /\ selectedUncontrolled' = next
    /\ selectedProp' = IF props.selectedControlled /\ adopt THEN next ELSE selectedProp

\* setSelectedId: the internal state is set when uncontrolled; a controlling
\* parent adopts the value (adopt) or keeps its prop
SetSelectedId(next, adopt) ==
    /\ selectedUncontrolled' = IF props.selectedControlled THEN selectedUncontrolled ELSE next
    /\ selectedProp' = IF props.selectedControlled /\ adopt THEN next ELSE selectedProp

\* setCollapsedIds, likewise
SetCollapsedIds(next, adopt) ==
    /\ collapsedUncontrolled' = IF props.collapsedControlled THEN collapsedUncontrolled ELSE next
    /\ collapsedProp' = IF props.collapsedControlled /\ adopt THEN next ELSE collapsedProp

\* The parent's answers to onSelectionChange and onCollapsedChange
SelectionAdopts == IF props.selectedControlled THEN BOOLEAN ELSE {TRUE}

CollapsedAdopts == IF props.collapsedControlled THEN BOOLEAN ELSE {TRUE}

\* The render after a handler: collapsedSet, flatten, layout, links, the scope
\* and the search results are derived again from the new collapsed ids,
\* selection and query
Rerender(query, open) ==
    /\ collapsedSet' = Range(CollapsedIds')
    /\ \E r \in {Rendered(tree, props, collapsedSet')} :
        /\ flat' = r.flat
        /\ computedNodes' = r.computedNodes
        /\ links' = r.links
    /\ scopeView' = ScopeView(computedNodes', links', SelectedId', props)
    /\ searchView' = [query |-> query, open |-> open,
                      results |-> results(query, props,
                                          searchIndex(computedNodes', props.getSearchText))]

\* The autoFit effect runs fitToContent again after a render in which
\* collapsedIds.join("|") changed
AutoFitNexts ==
    IF props.autoFit /\ CollapsedIds' # CollapsedIds
    THEN << FitViewport(computedNodes', props, svgSize) >>
    ELSE <<>>

\* The end of every handler of this section: the render, then the effect; the
\* handler itself hands the viewports nexts to setViewport and makes the
\* calls before and after
HandlesUi(op, before, nexts, after, query, open) ==
    /\ pc = "idle"
    /\ WithinHorizon(nexts)
    /\ changes' = changes + Len(nexts)
    /\ UNCHANGED <<tree, props, pc>>
    /\ Rerender(query, open)
    /\ \E adopt \in Adopts :
        /\ StoreViewports(nexts \o AutoFitNexts, adopt)
        /\ wheelPending' = IF NewWheelInstance(nexts \o AutoFitNexts, adopt)
                           THEN FALSE ELSE wheelPending
    /\ calls' = before \o ViewportCalls(nexts) \o after \o ViewportCalls(AutoFitNexts)
    /\ lastOp' = op
    /\ UNCHANGED <<svgSize, dragRef, wheelRafs, gesture>>

\* next = new Set(collapsedIds); the key is deleted if present, else added last
ToggledIds(ids, key) ==
    IF key \in Range(ids) THEN SeqFilter(ids, [k \in Range(ids) |-> k # key])
    ELSE Append(ids, key)

RenderedNodes == Range(scopeView.scopedNodes)

\* ctx.toggleCollapse() of a rendered node
toggleCollapse(n) ==
    /\ props.collapsible /\ ~props.disabled
    /\ LET next == ToggledIds(CollapsedIds, n.id)
       IN /\ \E adopt \in CollapsedAdopts : SetCollapsedIds(next, adopt)
          /\ UNCHANGED <<selectedUncontrolled, selectedProp>>
          /\ HandlesUi([name |-> "toggleCollapse", id |-> n.id],
                       << [cb |-> "onCollapsedChange", arg |-> next] >>, <<>>, <<>>,
                       searchView.query, searchView.open)

\* Mutant: a click on the selected node keeps it selected.
selectNodeNeverClears(n) ==
    /\ props.selectable /\ ~props.disabled
    /\ \E adopt \in SelectionAdopts : SetSelectedId(n.id, adopt)
    /\ UNCHANGED <<collapsedUncontrolled, collapsedProp>>
    /\ HandlesUi([name |-> "selectNode", id |-> n.id],
                 << [cb |-> "onSelectionChange", arg |-> n.id, node |-> n.data] >>,
                 <<>>, <<>>, searchView.query, searchView.open)

\* onClick of a rendered node: selectNode(key, n.data)
selectNode(n) ==
    /\ props.selectable /\ ~props.disabled
    /\ LET next == IF SelectedId = n.id THEN null ELSE n.id
       IN /\ \E adopt \in SelectionAdopts : SetSelectedId(next, adopt)
          /\ UNCHANGED <<collapsedUncontrolled, collapsedProp>>
          /\ HandlesUi([name |-> "selectNode", id |-> n.id],
                       << [cb |-> "onSelectionChange", arg |-> next,
                           node |-> IF next # null THEN n.data ELSE Undefined] >>,
                       <<>>, <<>>, searchView.query, searchView.open)

\* A toolbar action that hands the ids next to setCollapsedIds
CollapseButton(name, next) ==
    /\ props.collapsible /\ ~props.disabled
    /\ \E adopt \in CollapsedAdopts : SetCollapsedIds(next, adopt)
    /\ UNCHANGED <<selectedUncontrolled, selectedProp>>
    /\ HandlesUi([name |-> name],
                 << [cb |-> "onCollapsedChange", arg |-> next] >>, <<>>, <<>>,
                 searchView.query, searchView.open)

\* ids = computedNodes.filter(n => n.childrenIds.length > 0).map(n => n.id)
CollapseAllIds(computed) ==
    LET withKids == SeqFilter(computed, [n \in Range(computed) |-> Len(n.childrenIds) > 0])
    IN [i \in 1..Len(withKids) |-> withKids[i].id]

\* The caret of the default node renderer, shown on a node with children when
\* collapsible: its click calls ctx.toggleCollapse()
CaretClick(n) ==
    /\ props.collapsible /\ Len(n.childrenIds) > 0
    /\ toggleCollapse(n)

collapseAll == CollapseButton("collapseAll", CollapseAllIds(computedNodes))

expandAll == CollapseButton("expandAll", <<>>)

\* onChange of the search input: setQuery(value); setSearchOpen(true)
onSearchChange(query) ==
    /\ props.searchable
    /\ UNCHANGED <<selectedUncontrolled, selectedProp, collapsedUncontrolled, collapsedProp>>
    /\ HandlesUi([name |-> "searchChange"], <<>>, <<>>, <<>>, query, TRUE)

\* The click on the result r of the open search menu: commitSearch(r.id)
commitSearch(r) ==
    /\ props.searchable /\ searchView.open
    /\ r.id \in DOMAIN NodeById(computedNodes)
    /\ LET n == NodeById(computedNodes)[r.id]
           k0 == RMax(Viewport.k, R(1))
       IN /\ \E adopt \in SelectionAdopts : SetSelectedId(r.id, adopt)
          /\ UNCHANGED <<collapsedUncontrolled, collapsedProp>>
          /\ HandlesUi([name |-> "commitSearch", id |-> r.id, before |-> Viewport],
                       << [cb |-> "onSelectionChange", arg |-> r.id, node |-> n.data] >>,
                       << CenterViewport(n, k0, props, svgSize) >>,
                       << [cb |-> "onSearchSelect", arg |-> r.id, node |-> n.data] >>,
                       searchView.query, FALSE)

-----------------------------------------------------------------------------
(* Scope and lineage on every well-formed hierarchy within the bounds: the
   nodes are selected and collapsed through the handlers *)

ScopeDepths == {Num(0), Num(1), Num(2), Infinity}

\* The defaults without the autoFit effect, which leaves the viewport alone
ScopeBase == [BaseProps EXCEPT !.autoFit = FALSE]

\* Every scope mode with every depth limit and the default highlighting, and
\* every way of switching a part of the highlighting off
ScopeProps ==
    { [ScopeBase EXCEPT !.scopeMode = m, !.scopeDepth = d] :
        m \in {"full", "asc", "desc", "siblings"}, d \in ScopeDepths }
    \cup { [ScopeBase EXCEPT !.scopeDepth = d, !.lineageHighlight = f[1],
                             !.highlightAncestors = f[2], !.highlightDescendants = f[3],
                             !.highlightSiblings = f[4]] :
        d \in {Num(1), Infinity},
        f \in { <<FALSE, TRUE, TRUE, TRUE>>, <<TRUE, FALSE, TRUE, TRUE>>,
                <<TRUE, TRUE, FALSE, TRUE>>, <<TRUE, TRUE, TRUE, FALSE>> } }

InitScope ==
    /\ \E t \in Trees : tree = [n |-> t.n, kids |-> t.kids, sparse |-> FALSE]
    /\ props \in ScopeProps
    /\ collapsedSet = {}
    /\ LET r == Rendered(tree, props, {})
       IN /\ flat = r.flat
          /\ computedNodes = r.computedNodes
          /\ links = r.links
          /\ scopeView = ScopeView(r.computedNodes, r.links, props.defaultSelectedId, props)
    /\ pc = "idle"
    /\ ViewAtRest(props)
    /\ selectedProp = props.defaultSelectedId
    /\ collapsedUncontrolled = props.defaultCollapsedIds
    /\ collapsedProp = props.defaultCollapsedIds
    /\ searchView = [query |-> <<>>, open |-> FALSE, results |-> <<>>]

NextScope ==
    \/ \E n \in RenderedNodes : selectNode(n)
    \/ \E n \in RenderedNodes : CaretClick(n)
    \/ collapseAll
    \/ expandAll

SpecScope == InitScope /\ [][NextScope]_vars


-----------------------------------------------------------------------------
(* The relations of the shown hierarchy, read off the caller's data and the
   collapsed set: a node is shown when none of its proper ancestors is
   collapsed, and the children of a collapsed node are not shown *)

NodeOfKey(k) == CHOOSE j \in 1..Len(KeyStr) : KeyStr[j] = k

ShownKeys == {toKey(j) : j \in {i \in 1..tree.n : TreeVisited(tree, collapsedSet, i)}}

\* The parent of a shown node as a set: empty for the root and for an id that
\* is not shown
ShownParent(k) ==
    IF k \in ShownKeys /\ NodeOfKey(k) # 1
    THEN {toKey(TreeParent(tree, NodeOfKey(k)))}
    ELSE {}

ShownChildren(k) == {c \in ShownKeys : ShownParent(c) = {k}}

ShownSiblings(k) == UNION {ShownChildren(q) : q \in ShownParent(k)} \ {k}

\* C11: in scope mode siblings with a node selected, the scope set is exactly
\* the selected id, its parent if any, its siblings and the children of those
\* siblings; no child of the selected node and no grandparent is in it.
C11_SiblingsScope ==
    (scopeView.rendered /\ props.scopeMode = "siblings" /\ SelectedId # null) =>
        LET s == SelectedId
            sibs == ShownSiblings(s)
            sibsKids == UNION {ShownChildren(q) : q \in sibs}
            grandparents == UNION {ShownParent(q) : q \in ShownParent(s)}
        IN /\ ~scopeView.scopeSet.isNull
           /\ scopeView.scopeSet.ids = {s} \cup ShownParent(s) \cup sibs \cup sibsKids
           /\ scopeView.scopeSet.ids \cap ShownChildren(s) = {}
           /\ scopeView.scopeSet.ids \cap grandparents = {}

\* A node with a parent, a sibling and a child of that sibling is selected by
\* a click in scope mode siblings
C11_Witness ==
    /\ scopeView.rendered /\ props.scopeMode = "siblings" /\ SelectedId # null
    /\ lastOp.name = "selectNode"
    /\ ShownParent(SelectedId) # {}
    /\ ShownSiblings(SelectedId) # {}
    /\ UNION {ShownChildren(q) : q \in ShownSiblings(SelectedId)} # {}
    /\ Cardinality(scopeView.scopeSet.ids) = 4


\* The number of parent steps from the root down to node j
TreeDepth(j) == Cardinality(TreeAncestors(tree, j))

\* n steps are within the limit
WithinLimit(n, limit) == limit.inf \/ n <= limit.n

\* The ancestors of the shown node k at most limit parent steps above it
ShownAncestorsWithin(k, limit) ==
    IF k \notin ShownKeys THEN {}
    ELSE {toKey(a) : a \in {b \in TreeAncestors(tree, NodeOfKey(k)) :
                              WithinLimit(TreeDepth(NodeOfKey(k)) - TreeDepth(b), limit)}}

\* The shown descendants of k at most limit levels below it
ShownDescendantsWithin(k, limit) ==
    {d \in ShownKeys : /\ NodeOfKey(k) \in TreeAncestors(tree, NodeOfKey(d))
                       /\ WithinLimit(TreeDepth(NodeOfKey(d)) - TreeDepth(NodeOfKey(k)), limit)}

\* C12: with a selection s and the depth limit scopeDepth, the ancestor set is
\* exactly the ancestors of s within scopeDepth parent steps and the descendant
\* set exactly the shown descendants of s within scopeDepth levels, neither
\* holds s; the scope set is s with the ancestor set in mode asc (the spec's
\* ascending) and s with the descendant set in mode desc (descending).
C12_DepthBoundedScope ==
    (scopeView.rendered /\ SelectedId # null) =>
        LET s == SelectedId
            up == ShownAncestorsWithin(s, props.scopeDepth)
            down == ShownDescendantsWithin(s, props.scopeDepth)
        IN /\ scopeView.ancestorsSet = up
           /\ scopeView.descendantsSet = down
           /\ s \notin scopeView.ancestorsSet \cup scopeView.descendantsSet
           /\ props.scopeMode = "asc" =>
                ~scopeView.scopeSet.isNull /\ scopeView.scopeSet.ids = {s} \cup up
           /\ props.scopeMode = "desc" =>
                ~scopeView.scopeSet.isNull /\ scopeView.scopeSet.ids = {s} \cup down

\* A node three levels deep is selected by a click in mode asc with the limit
\* of two steps: the scope holds its parent and grandparent, not the root
C12_Witness ==
    /\ scopeView.rendered /\ SelectedId # null /\ lastOp.name = "selectNode"
    /\ props.scopeMode = "asc" /\ props.scopeDepth = Num(2)
    /\ SelectedId \in ShownKeys
    /\ TreeDepth(NodeOfKey(SelectedId)) = 3
    /\ Cardinality(scopeView.scopeSet.ids) = 3
    /\ toKey(1) \notin scopeView.scopeSet.ids


\* C13: without a selection, or in scope mode full, the rendered nodes are the
\* computed nodes and the rendered links are the links.
C13_NoScopeWithoutSelectionOrFull ==
    (scopeView.rendered /\ (SelectedId = null \/ props.scopeMode = "full")) =>
        /\ scopeView.scopedNodes = computedNodes
        /\ scopeView.scopedLinks = links

\* A node of a hierarchy with three links is selected by a click in mode full
C13_Witness ==
    /\ scopeView.rendered /\ props.scopeMode = "full"
    /\ lastOp.name = "selectNode" /\ SelectedId # null
    /\ Len(links) = 3
    /\ Len(scopeView.scopedLinks) = 3 /\ Len(scopeView.scopedNodes) = 4


\* C14: a rendered node is dimmed exactly when lineage highlighting is on, a
\* node is selected, the node is not the selected one and is neither an
\* ancestor, nor a descendant, nor a sibling of it in the computed tree.
C14_DimmedExactly ==
    scopeView.rendered =>
        \A k \in DOMAIN scopeView.classes :
            scopeView.classes[k].isDimmed <=>
                /\ props.lineageHighlight
                /\ SelectedId # null
                /\ k # SelectedId
                /\ k \notin ShownAncestorsWithin(SelectedId, Infinity)
                /\ k \notin ShownDescendantsWithin(SelectedId, Infinity)
                /\ k \notin ShownSiblings(SelectedId)


-----------------------------------------------------------------------------
(* The three owned values (viewport, selection, collapsed ids), each
   controlled or not, under the toolbar, node, caret and search handlers *)

OwnViews ==
    { [minZoom |-> Frac(1, 4), maxZoom |-> Frac(5, 2), k |-> R(1)],
      [minZoom |-> Frac(3, 2), maxZoom |-> R(2), k |-> R(1)],
      [minZoom |-> Frac(1, 4), maxZoom |-> Frac(1, 2), k |-> Frac(1, 2)],
      [minZoom |-> Frac(1, 4), maxZoom |-> Frac(5, 2), k |-> R(2)] }

\* Which of viewport, selectedId and collapsedIds the parent controls
OwnFlags ==
    { <<FALSE, FALSE, FALSE>>, <<TRUE, TRUE, TRUE>>,
      <<TRUE, FALSE, TRUE>>, <<FALSE, TRUE, FALSE>> }

OwnProps ==
    { [ViewBase EXCEPT !.minZoom = z.minZoom, !.maxZoom = z.maxZoom,
                       !.defaultViewport = [x |-> R(0), y |-> R(0), k |-> z.k],
                       !.viewportControlled = c[1], !.selectedControlled = c[2],
                       !.collapsedControlled = c[3], !.autoFit = (z.k = R(2)),
                       !.getSearchText = "mixed"] :
      z \in OwnViews, c \in OwnFlags }

SearchQueries == { <<" ", "B", "A", " ">> }

InitOwn ==
    /\ tree = [n |-> ViewTree.n, kids |-> ViewTree.kids, sparse |-> FALSE]
    /\ props \in OwnProps
    /\ collapsedSet = {}
    /\ \E r \in {Rendered(tree, props, {})} :
        /\ flat = r.flat
        /\ computedNodes = r.computedNodes
        /\ links = r.links
        /\ scopeView = ScopeView(r.computedNodes, r.links, props.defaultSelectedId, props)
    /\ pc = "done"
    /\ ViewAtRest(props)
    /\ selectedProp = props.defaultSelectedId
    /\ collapsedUncontrolled = props.defaultCollapsedIds
    /\ collapsedProp = props.defaultCollapsedIds
    /\ searchView = [query |-> <<>>, open |-> FALSE, results |-> <<>>]

NextOwn ==
    \/ MountEffects
    \/ ResetButton
    \/ ZoomInButton
    \/ \E n \in RenderedNodes : selectNode(n)
    \/ \E n \in RenderedNodes : CaretClick(n)
    \/ collapseAll
    \/ expandAll
    \/ \E q \in SearchQueries : onSearchChange(q)
    \/ \E r \in Range(searchView.results) : commitSearch(r)

SpecOwn == InitOwn /\ [][NextOwn]_vars


\* The arguments of the calls of the callback cb among the calls cs
ArgsOf(cs, cb) ==
    LET to == SeqFilter(cs, [c \in Range(cs) |-> c.cb = cb])
    IN [i \in 1..Len(to) |-> to[i].arg]

\* The viewports the handler of a step hands to setViewport, in order, read
\* off the state before the step
RequestedViewports ==
    CASE lastOp'.name = "effects" ->
            IF props.autoFit THEN << FitViewport(computedNodes, props, svgSize) >> ELSE <<>>
      [] lastOp'.name = "reset" -> << ResetViewport(props) >>
      [] lastOp'.name = "zoomIn" -> << doZoomIn(Viewport, props) >>
      [] lastOp'.name = "commitSearch" ->
            << CenterViewport(NodeById(computedNodes)[lastOp'.id], RMax(Viewport.k, R(1)),
                              props, svgSize) >>
      [] OTHER -> AutoFitNexts

\* The selected id the handler of a step hands to setSelectedId
RequestedSelections ==
    CASE lastOp'.name = "selectNode" ->
            << IF SelectedId = lastOp'.id THEN null ELSE lastOp'.id >>
      [] lastOp'.name = "commitSearch" -> << lastOp'.id >>
      [] OTHER -> <<>>

\* The collapsed ids the handler of a step hands to setCollapsedIds
RequestedCollapsed ==
    CASE lastOp'.name = "toggleCollapse" -> << ToggledIds(CollapsedIds, lastOp'.id) >>
      [] lastOp'.name = "collapseAll" -> << CollapseAllIds(computedNodes) >>
      [] lastOp'.name = "expandAll" -> << <<>> >>
      [] OTHER -> <<>>

\* One value over a step: the callback is called once per request with the
\* values given, the internal value is untouched when controlled and is the
\* last value given otherwise
Owned(controlled, old, new, given, args) ==
    /\ args = given
    /\ controlled => new = old
    /\ ~controlled => new = IF given = <<>> THEN old ELSE given[Len(given)]

\* What is rendered after a step is the prop when controlled
RendersOwner ==
    /\ scopeView'.selectedKey = SelectedId'
    /\ props.selectedControlled => scopeView'.selectedKey = selectedProp'
    /\ collapsedSet' = Range(CollapsedIds')
    /\ props.collapsedControlled => collapsedSet' = Range(collapsedProp')

\* C15 as stated: for viewport, selection and collapsed ids, every operation
\* leaves the internal value alone when the prop is supplied and calls the
\* change callback with the requested value; without the prop it stores the
\* requested value and calls the callback with that same value.
C15_OwnershipExact ==
    [][ /\ Owned(props.viewportControlled, viewportUncontrolled, viewportUncontrolled',
                 RequestedViewports, ArgsOf(calls', "onViewportChange"))
        /\ Owned(props.selectedControlled, selectedUncontrolled, selectedUncontrolled',
                 RequestedSelections, ArgsOf(calls', "onSelectionChange"))
        /\ Owned(props.collapsedControlled, collapsedUncontrolled, collapsedUncontrolled',
                 RequestedCollapsed, ArgsOf(calls', "onCollapsedChange"))
        /\ RendersOwner ]_vars

\* C15, amended: the same, the requested viewport being clamped into the zoom
\* limits before it is stored or handed to onViewportChange.
C15_Ownership ==
    [][ /\ Owned(props.viewportControlled, viewportUncontrolled, viewportUncontrolled',
                 [i \in 1..Len(RequestedViewports) |-> ClampedVp(RequestedViewports[i], props)],
                 ArgsOf(calls', "onViewportChange"))
        /\ Owned(props.selectedControlled, selectedUncontrolled, selectedUncontrolled',
                 RequestedSelections, ArgsOf(calls', "onSelectionChange"))
        /\ Owned(props.collapsedControlled, collapsedUncontrolled, collapsedUncontrolled',
                 RequestedCollapsed, ArgsOf(calls', "onCollapsedChange"))
        /\ RendersOwner ]_vars

\* A click on a node while the parent controls the selection and keeps its
\* prop: the callback got the node's id, nothing is selected
C15_Witness ==
    /\ props.selectedControlled /\ props.viewportControlled
    /\ lastOp.name = "selectNode"
    /\ ArgsOf(calls, "onSelectionChange") = << lastOp.id >>
    /\ selectedProp = null /\ selectedUncontrolled = null
    /\ scopeView.selectedKey = null


\* The node the search commit of the step is about, and the viewport and the
\* node handed to the callbacks
CommittedNode == NodeById(computedNodes)[lastOp'.id]

CommitViewport == ArgsOf(calls', "onViewportChange")[1]

\* The commit selects the id and tells the caller: calls in the order of the
\* code, each with the id and the node
CommitSelects ==
    /\ Len(calls') = 3
    /\ calls'[1] = [cb |-> "onSelectionChange", arg |-> lastOp'.id, node |-> CommittedNode.data]
    /\ calls'[2].cb = "onViewportChange"
    /\ calls'[3] = [cb |-> "onSearchSelect", arg |-> lastOp'.id, node |-> CommittedNode.data]
    /\ ~props.selectedControlled => SelectedId' = lastOp'.id
    /\ ~props.viewportControlled => Viewport' = CommitViewport

\* The center of the node is shown at the center of the surface
CommitCenters ==
    /\ RAdd(RMul(RAdd(R(CommittedNode.x), Frac(props.nodeWidth, 2)), CommitViewport.k),
            CommitViewport.x) = Frac(svgSize.w, 2)
    /\ RAdd(RMul(RAdd(R(CommittedNode.y), Frac(props.nodeHeight, 2)), CommitViewport.k),
            CommitViewport.y) = Frac(svgSize.h, 2)

\* C16 as stated: a search commit of a visible node selects it, calls the
\* selection and the search-selection callbacks with the node, and centers the
\* node at the scale max(k, 1), which is neither below 1 nor below the scale
\* before.
C16_CommitExact ==
    [][ lastOp'.name = "commitSearch" =>
            /\ CommitSelects
            /\ CommitCenters
            /\ CommitViewport.k = RMax(Viewport.k, R(1))
            /\ RLe(R(1), CommitViewport.k)
            /\ RLe(Viewport.k, CommitViewport.k) ]_vars

\* C16, amended: the scale is clamp(max(k, 1), minZoom, maxZoom); it is at
\* least 1 and at least the scale before only as far as maxZoom allows.
C16_CommitClamped ==
    [][ lastOp'.name = "commitSearch" =>
            /\ CommitSelects
            /\ CommitCenters
            /\ CommitViewport.k = clamp(RMax(Viewport.k, R(1)), props.minZoom, props.maxZoom)
            /\ RLe(RMin(R(1), props.maxZoom), CommitViewport.k)
            /\ RLe(RMin(Viewport.k, props.maxZoom), CommitViewport.k) ]_vars

\* A result is committed at a scale below 1 with nothing controlled: the node
\* is selected and centered at the scale 1
C16_Witness ==
    /\ lastOp.name = "commitSearch"
    /\ ~props.selectedControlled /\ ~props.viewportControlled
    /\ RLt(lastOp.before.k, R(1))
    /\ Viewport.k = R(1)
    /\ SelectedId = lastOp.id
    /\ Len(calls) = 3
    /\ ~searchView.open


-----------------------------------------------------------------------------
(* The search box: the query is typed and erased one character at a time over
   hierarchies with fewer and with more matching nodes than the menu shows *)

MaxQuery == 4

MaxSearchNodes == 14

TypedChars == {"a", "B", " "}

\* A root with two chains below it: the traversal visits the odd-numbered
\* chain after the whole even-numbered one
TwoChains(n) == TreeOf(n, [j \in 1..n |-> IF j <= 3 THEN 1 ELSE j - 2])

SearchTrees == { TwoChains(n) : n \in {3, MaxSearchNodes - 1, MaxSearchNodes} }

SearchProps ==
    { [ScopeBase EXCEPT !.searchMinChars = m, !.getSearchText = fn] :
      m \in 0..3, fn \in SearchTextFns }

InitSearch ==
    /\ \E t \in SearchTrees : tree = [n |-> t.n, kids |-> t.kids, sparse |-> FALSE]
    /\ props \in SearchProps
    /\ collapsedSet = {}
    /\ \E r \in {Rendered(tree, props, {})} :
        /\ flat = r.flat
        /\ computedNodes = r.computedNodes
        /\ links = r.links
        /\ scopeView = ScopeView(r.computedNodes, r.links, props.defaultSelectedId, props)
        /\ searchView = [query |-> <<>>, open |-> FALSE,
                         results |-> results(<<>>, props,
                                             searchIndex(r.computedNodes, props.getSearchText))]
    /\ pc = "idle"
    /\ ViewAtRest(props)
    /\ selectedProp = props.defaultSelectedId
    /\ collapsedUncontrolled = props.defaultCollapsedIds
    /\ collapsedProp = props.defaultCollapsedIds

\* A key typed at the end of the query
TypeChar(c) ==
    /\ Len(searchView.query) < MaxQuery
    /\ onSearchChange(Append(searchView.query, c))

\* The last character of the query erased
Backspace ==
    /\ searchView.query # <<>>
    /\ onSearchChange(SubSeq(searchView.query, 1, Len(searchView.query) - 1))

NextSearch ==
    \/ \E c \in TypedChars : TypeChar(c)
    \/ Backspace

SpecSearch == InitSearch /\ [][NextSearch]_vars


\* The positions of the query that hold something else than a space
InkOf(str) == {i \in 1..Len(str) : str[i] # " "}

\* The query without the spaces at its ends
TrimmedOf(str) ==
    IF InkOf(str) = {} THEN <<>>
    ELSE SubSeq(str, SetMin(InkOf(str)), SetMax(InkOf(str)))

\* Two strings are the same up to the case of their letters
SameLetters(a, b) ==
    /\ Len(a) = Len(b)
    /\ \A i \in 1..Len(a) :
        \/ a[i] = b[i]
        \/ {a[i], b[i]} = {"a", "A"}
        \/ {a[i], b[i]} = {"b", "B"}

\* The positions in the traversal order of the nodes whose text holds the
\* trimmed query somewhere, case apart
MatchingAt(str) ==
    {i \in 1..Len(computedNodes) :
        LET text == getSearchText(props.getSearchText, computedNodes[i].data)
            q == TrimmedOf(str)
        IN \E at \in 0..(Len(text) - Len(q)) :
              SameLetters(SubSeq(text, at + 1, at + Len(q)), q)}

\* C17: a query whose trimmed length is below searchMinChars has no results,
\* even when nodes match; otherwise the results are the nodes whose text holds
\* the trimmed query, case apart, in traversal order, the first 12 of them.
C17_SearchResults ==
    (scopeView.rendered /\ props.searchable) =>
        LET q == searchView.query
            res == searchView.results
            M == MatchingAt(q)
        IN IF Len(TrimmedOf(q)) < props.searchMinChars
           THEN res = <<>>
           ELSE /\ Len(res) = IF Cardinality(M) < 12 THEN Cardinality(M) ELSE 12
                /\ \A r \in 1..Len(res) :
                     \E i \in M :
                        /\ Cardinality({m \in M : m < i}) = r - 1
                        /\ res[r].id = computedNodes[i].id
                        /\ res[r].node = computedNodes[i].data

\* A typed query with spaces around two letters matches more than twelve
\* nodes: the menu holds the first twelve of the traversal
C17_Witness ==
    /\ scopeView.rendered /\ props.searchable /\ lastOp.name = "searchChange"
    /\ Len(searchView.query) > Len(TrimmedOf(searchView.query))
    /\ Len(TrimmedOf(searchView.query)) = props.searchMinChars
    /\ Cardinality(MatchingAt(searchView.query)) > 12
    /\ Len(searchView.results) = 12
    /\ searchView.results[8].id = "14" /\ searchView.results[9].id = "3"


-----------------------------------------------------------------------------
(* The minimap *)

\* The content box the minimap shows, in world coordinates
ContentBox(computed, p) ==
    LET b == boundsOf(computed, p.padding)
    IN [left |-> b.minX, top |-> b.minY,
        width |-> IntMax(1, b.maxX - b.minX + p.nodeWidth),
        height |-> IntMax(1, b.maxY - b.minY + p.nodeHeight)]

\* The margins the projected content box leaves in the minimap
MiniMargins(computed, p) ==
    LET m == Mini(computed, p)
        c == ContentBox(computed, p)
        x0 == RAdd(RMul(R(c.left), m.k), m.tx)
        y0 == RAdd(RMul(R(c.top), m.k), m.ty)
    IN [left |-> x0,
        right |-> RSub(R(m.w), RAdd(x0, RMul(R(c.width), m.k))),
        top |-> y0,
        bottom |-> RSub(R(m.h), RAdd(y0, RMul(R(c.height), m.k)))]

\* C18: the minimap scale is min((miniW - 2 pad) / contentW, (miniH - 2 pad) /
\* contentH) and the translation centers the content box: equal margins left
\* and right, equal margins top and bottom.
C18_MiniMapCentered ==
    (LayoutDone /\ computedNodes # <<>>) =>
        LET m == Mini(computedNodes, props)
            c == ContentBox(computedNodes, props)
            g == MiniMargins(computedNodes, props)
        IN /\ m.k = RMin(Frac(props.miniMapWidth - 2 * props.miniMapPadding, c.width),
                         Frac(props.miniMapHeight - 2 * props.miniMapPadding, c.height))
           /\ g.left = g.right
           /\ g.top = g.bottom

\* The world point under the minimap point m
MiniWorldPoint(m, mini) ==
    [x |-> RDiv(RSub(R(m.mx), mini.tx), mini.k),
     y |-> RDiv(RSub(R(m.my), mini.ty), mini.k)]

\* C19: a click at a minimap point m keeps the scale and brings the world
\* point under m to the center of the surface.
C19_MiniMapClickCenters ==
    [][ (lastOp'.name = "miniMapClick" /\ calls' # <<>>) =>
            \E m \in MiniMapEvents :
                LET w == MiniWorldPoint(m, Mini(computedNodes, props))
                    after == calls'[1].arg
                IN /\ after.k = Viewport.k
                   /\ RAdd(RMul(w.x, after.k), after.x) = Frac(svgSize.w, 2)
                   /\ RAdd(RMul(w.y, after.k), after.y) = Frac(svgSize.h, 2)
                   /\ ~props.viewportControlled => Viewport' = after ]_vars


-----------------------------------------------------------------------------
(* flattenTree on children accessors that may describe cycles and shared
   children: the root has up to two children, every other node up to one,
   which is the root, the node itself or a neighbour in the numbering *)

MaxCycleNodes == 3

\* The loop of the model stops at this length of the flat sequence, which no
\* acyclic accessor within the bounds reaches
FlatCap == 2 * MaxCycleNodes + 1

KidsOfRoot(n) ==
    {<<>>} \cup {<<j>> : j \in 1..n} \cup {<<i, j>> : i \in 1..n, j \in 2..n}

KidsOfOther(n, i) ==
    {<<>>} \cup {<<j>> : j \in {1} \cup ({i - 1, i, i + 1} \cap (1..n))}

Graphs ==
    UNION { { [n |-> n, kids |-> k, sparse |-> FALSE] :
              k \in {f \in [1..n -> KidsOfRoot(n)] :
                       /\ Len(f[1]) = 2 => f[1][1] < f[1][2]
                       /\ \A i \in 2..n : f[i] \in KidsOfOther(n, i)} }
            : n \in 1..MaxCycleNodes }

\* The sets of collapsed ids: up to two ids of the graph
CycleCollapsed(n) ==
    {S \in SUBSET {toKey(v) : v \in 1..n} : Cardinality(S) <= 2}

InitCycle ==
    /\ tree \in Graphs
    /\ props = BaseProps
    /\ collapsedSet \in CycleCollapsed(tree.n)
    /\ flat = FlattenStart(1)
    /\ computedNodes = <<>>
    /\ links = <<>>
    /\ pc = "flatten"
    /\ ViewAtRest(props)
    /\ UiAtRest(props, collapsedSet)

\* An iteration of the while loop, up to the cap of the model
CycleLoop ==
    /\ Len(flat.nodes) < FlatCap
    /\ FlattenLoop

\* The loop is left with an empty stack: flattenTree returns
FlattenReturn ==
    /\ pc = "flatten"
    /\ flat.stack = <<>>
    /\ pc' = "flattened"
    /\ UNCHANGED <<tree, props, collapsedSet, flat, computedNodes, links>>
    /\ UNCHANGED viewVars
    /\ UNCHANGED uiVars

NextCycle == CycleLoop \/ FlattenReturn

\* flattenTree is synchronous code: an iteration that can run does run
SpecCycle == InitCycle /\ [][NextCycle]_vars /\ WF_vars(CycleLoop) /\ WF_vars(FlattenReturn)

\* The nodes reached from the nodes S along the children of the nodes that are
\* not collapsed
RECURSIVE ReachedFrom(_)
ReachedFrom(S) ==
    LET more == S \cup UNION { Range(tree.kids[u]) : u \in {v \in S : toKey(v) \notin collapsedSet} }
    IN IF more = S THEN S ELSE ReachedFrom(more)

\* The traversal meets a cycle that no collapsed id cuts: a visited node that
\* is not collapsed is reached again from its own children
UncutCycle ==
    \E v \in ReachedFrom({1}) :
        /\ toKey(v) \notin collapsedSet
        /\ v \in ReachedFrom(Range(tree.kids[v]))

\* C20: with a cycle that no collapsed id cuts flattenTree never returns and
\* the flat sequence keeps growing (here: up to the cap of the model); in every
\* other case flattenTree returns.
C20_CyclesNotDetected ==
    /\ UncutCycle => ([](pc = "flatten") /\ <>(Len(flat.nodes) = FlatCap))
    /\ ~UncutCycle => <>(pc = "flattened")

\* The loop is still running at the cap on a cycle of three nodes, the root's
\* id emitted for the third time
C20_Witness ==
    /\ UncutCycle /\ pc = "flatten" /\ flat.stack # <<>>
    /\ Len(flat.nodes) = FlatCap
    /\ Cardinality({i \in 1..Len(flat.nodes) : flat.nodes[i].id = "1"}) = 3
    /\ Cardinality({flat.nodes[i].id : i \in 1..Len(flat.nodes)}) = 3

-----------------------------------------------------------------------------
(* Wheel events between renders: a pan or a button changes the viewport
   while a wheel callback waits for its frame, so that callbacks of earlier
   onWheel instances are still scheduled *)

MaxStaleRafs == 2

MaxWheelChanges == 3

WheelProps ==
    { [ViewBase EXCEPT !.minZoom = Frac(1, 4), !.maxZoom = Frac(5, 2), !.autoFit = FALSE,
                       !.viewportControlled = c] : c \in BOOLEAN }

\* Pointer events on the empty canvas
CanvasEvents == { e \in PointerEvents : e.target = "canvas" }

InitWheel ==
    /\ tree = [n |-> ViewTree.n, kids |-> ViewTree.kids, sparse |-> FALSE]
    /\ props \in WheelProps
    /\ collapsedSet = {}
    /\ LET r == Rendered(tree, props, collapsedSet)
       IN flat = r.flat /\ computedNodes = r.computedNodes /\ links = r.links
    /\ pc = "idle"
    /\ viewportUncontrolled = props.defaultViewport
    /\ viewportProp = props.defaultViewport
    /\ svgSize = ViewSize
    /\ dragRef = [active |-> FALSE, startX |-> 0, startY |-> 0,
                  baseX |-> R(0), baseY |-> R(0), pointerId |-> null]
    /\ wheelRafs = <<>>
    /\ wheelPending = FALSE
    /\ selectedUncontrolled = props.defaultSelectedId
    /\ gesture = "none"
    /\ changes = 0
    /\ calls = <<>>
    /\ lastOp = [name |-> "effects"]
    /\ UiAtRest(props, collapsedSet)

\* An animation frame: every scheduled wheel callback runs
WheelFrame ==
    /\ changes + Len(WheelNexts(wheelRafs)) <= MaxWheelChanges
    /\ changes' = changes + Len(WheelNexts(wheelRafs))
    /\ RunFrame

NextWheel ==
    \/ \E e \in WheelEvents : WheelEventWithin(e, MaxStaleRafs)
    \/ WheelFrame
    \/ \E e \in CanvasEvents : onPointerDown(e)
    \/ \E e \in CanvasEvents : onPointerMove(e)
    \/ \E e \in CanvasEvents : onPointerUp(e)
    \/ ZoomInButton

SpecWheel == InitWheel /\ [][NextWheel]_vars

\* C21 (as claimed): a frame applies at most one wheel-driven viewport update,
\* computed with the parameters of the most recent wheel event; the earlier
\* wheel events since the last frame are dropped.
C21_WheelCoalescing ==
    lastOp.name = "frame" =>
        /\ Len(calls) <= 1
        /\ \A i \in 1..Len(calls) :
            calls[i].arg = ClampedVp(WheelViewport(lastOp.ran[i].vp,
                                                   lastOp.ran[Len(lastOp.ran)].args, props),
                                     props)

\* C25 (as claimed): the wheel callback of a frame computes its viewport from
\* the viewport that is current when the frame fires, so a change made between
\* the wheel event and the frame is kept.
C25_ZoomFromCurrentViewport ==
    [][ (lastOp'.name = "frame" /\ Len(wheelRafs) = 1 /\ Len(calls') = 1) =>
            calls'[1].arg = ClampedVp(WheelViewport(Viewport, wheelRafs[1].args, props), props)
      ]_vars

-----------------------------------------------------------------------------
(* Two pointers on the surface: each place of the surface belongs to the
   empty canvas, a node, the toolbar or the minimap, and either pointer can be
   pressed, moved and released at each place *)

SurfacePlaces ==
    { [x |-> 1, y |-> 2, target |-> "canvas"], [x |-> 4, y |-> 2, target |-> "canvas"],
      [x |-> 2, y |-> 3, target |-> "node"], [x |-> 5, y |-> 0, target |-> "toolbar"],
      [x |-> 5, y |-> 4, target |-> "minimap"] }

TwoPointerEvents ==
    { [clientX |-> s.x, clientY |-> s.y, pointerId |-> i, target |-> s.target] :
      s \in SurfacePlaces, i \in {1, 2} }

\* The flags, a viewport controlled by the parent, and a first scale above maxZoom
PointerProps ==
    { [ViewBase EXCEPT !.autoFit = FALSE, !.zoomable = f.zoomable, !.pannable = f.pannable,
                       !.disabled = f.disabled] : f \in ViewFlags }
    \cup { [ViewBase EXCEPT !.autoFit = FALSE, !.viewportControlled = TRUE] }
    \cup { [ViewBase EXCEPT !.autoFit = FALSE, !.minZoom = Frac(1, 4), !.maxZoom = Frac(5, 2),
                            !.defaultViewport = d] : d \in DefaultViewports }

InitPointer ==
    /\ tree = [n |-> ViewTree.n, kids |-> ViewTree.kids, sparse |-> FALSE]
    /\ props \in PointerProps
    /\ collapsedSet = {}
    /\ LET r == Rendered(tree, props, collapsedSet)
       IN flat = r.flat /\ computedNodes = r.computedNodes /\ links = r.links
    /\ pc = "idle"
    /\ viewportUncontrolled = props.defaultViewport
    /\ viewportProp = props.defaultViewport
    /\ svgSize = ViewSize
    /\ dragRef = [active |-> FALSE, startX |-> 0, startY |-> 0,
                  baseX |-> R(0), baseY |-> R(0), pointerId |-> null]
    /\ wheelRafs = <<>>
    /\ wheelPending = FALSE
    /\ selectedUncontrolled = props.defaultSelectedId
    /\ gesture = "none"
    /\ changes = 0
    /\ calls = <<>>
    /\ lastOp = [name |-> "effects"]
    /\ UiAtRest(props, collapsedSet)

\* onPointerCancel={onPointerUp}
onPointerCancel(e) == onPointerUp(e)

NextPointer ==
    \/ \E e \in TwoPointerEvents : onPointerDown(e)
    \/ \E e \in TwoPointerEvents : onPointerMove(e)
    \/ \E e \in TwoPointerEvents : onPointerUp(e)
    \/ \E e \in TwoPointerEvents : onPointerCancel(e)

SpecPointer == InitPointer /\ [][NextPointer]_vars

\* C22 (as claimed): while a drag started by one pointer is active, a
\* pointer-down, pointer-move or pointer-up of another pointer changes neither
\* the drag session nor the viewport.
C22_DragNotStolen ==
    [][ \A e \in TwoPointerEvents :
          ( /\ dragRef.active
            /\ e.pointerId # dragRef.pointerId
            /\ (onPointerDown(e) \/ onPointerMove(e) \/ onPointerUp(e)) )
          => (dragRef' = dragRef /\ Viewport' = Viewport /\ calls' = <<>>)
      ]_vars

\* C23: a drag becomes active only in a pointer-down on the empty canvas while
\* pannable and not disabled; a pointer-up or pointer-cancel received while a
\* drag is active ends it (active false, pointer id cleared); a pointer-move
\* received while no drag is active leaves the viewport alone.
C23_DragLifecycle ==
    [][ /\ (~dragRef.active /\ dragRef'.active) =>
            /\ lastOp'.name = "pointerDown"
            /\ props.pannable /\ ~props.disabled
            /\ \E s \in SurfacePlaces :
                /\ s.target = "canvas"
                /\ dragRef'.startX = s.x /\ dragRef'.startY = s.y
        /\ (dragRef.active /\ lastOp'.name = "pointerUp") =>
            (~dragRef'.active /\ dragRef'.pointerId = null)
        /\ (~dragRef.active /\ lastOp'.name = "pointerMove") =>
            (Viewport' = Viewport /\ calls' = <<>>)
      ]_vars

\* a pointer-move after a drag that moved the viewport has ended: the move
\* called nothing and the viewport is where the drag left it
C23_Witness ==
    /\ lastOp.name = "pointerMove"
    /\ ~dragRef.active /\ dragRef.pointerId = null
    /\ dragRef.startX # 0
    /\ changes = 1
    /\ calls = <<>>
    /\ Viewport # props.defaultViewport

\* C24 (as claimed): a pointer-move during an active drag sets the translation
\* to the translation at the start of the drag plus the pointer's displacement
\* since the start, and leaves the scale k unchanged.
C24_PanKeepsScale ==
    [][ (dragRef.active /\ ~props.disabled /\ lastOp'.name = "pointerMove") =>
            /\ Len(calls') = 1
            /\ calls'[1].arg.k = Viewport.k
            /\ \E s \in SurfacePlaces :
                /\ calls'[1].arg.x = RAdd(dragRef.baseX, R(s.x - dragRef.startX))
                /\ calls'[1].arg.y = RAdd(dragRef.baseY, R(s.y - dragRef.startY))
            /\ ~props.viewportControlled => Viewport' = calls'[1].arg
      ]_vars

-----------------------------------------------------------------------------
(* Collapse and selection through the default gestures and the toolbar *)

\* C26 (as claimed): the default collapse gesture stays enabled on a rendered
\* node that is collapsed and has children in the source hierarchy, so every
\* collapsed node can be toggled back to expanded.
C26_CollapsedCanExpand ==
    \A n \in RenderedNodes :
        (n.id \in collapsedSet /\ tree.kids[n.data] # <<>>) =>
            (props.collapsible /\ Len(n.childrenIds) > 0)

\* C27 (as claimed): after collapse_all only the root is visible and every
\* node that was collapsed before is still collapsed; a second collapse_all
\* leaves the collapsed set and the visible nodes unchanged.
C27_CollapseAllIdempotent ==
    [][ lastOp'.name = "collapseAll" =>
            /\ Len(computedNodes') = 1
            /\ collapsedSet \subseteq collapsedSet'
            /\ lastOp.name = "collapseAll" =>
                (collapsedSet' = collapsedSet /\ computedNodes' = computedNodes)
      ]_vars

\* C28 (as claimed): whenever a selection exists and scopeMode is not full,
\* the selected node is among the rendered nodes.
C28_SelectionRendered ==
    (SelectedId # null /\ props.scopeMode # "full") =>
        \E n \in RenderedNodes : n.id = SelectedId

-----------------------------------------------------------------------------
(* The disabled component under the user's events: wheel, pointers, minimap
   and the search box.  selectNode and toggleCollapse return at once while
   disabled, and the browser keeps the toolbar's buttons from firing *)

DisabledProps ==
    { [ViewBase EXCEPT !.disabled = TRUE, !.autoFit = FALSE, !.getSearchText = "mixed",
                       !.viewportControlled = c, !.selectedControlled = c] :
      c \in BOOLEAN }

InitDisabled ==
    /\ tree = [n |-> ViewTree.n, kids |-> ViewTree.kids, sparse |-> FALSE]
    /\ props \in DisabledProps
    /\ collapsedSet = {}
    /\ \E r \in {Rendered(tree, props, {})} :
        /\ flat = r.flat
        /\ computedNodes = r.computedNodes
        /\ links = r.links
        /\ scopeView = ScopeView(r.computedNodes, r.links, props.defaultSelectedId, props)
    /\ pc = "done"
    /\ ViewAtRest(props)
    /\ selectedProp = props.defaultSelectedId
    /\ collapsedUncontrolled = props.defaultCollapsedIds
    /\ collapsedProp = props.defaultCollapsedIds
    /\ searchView = [query |-> <<>>, open |-> FALSE, results |-> <<>>]

NextDisabled ==
    \/ MountEffects
    \/ \E e \in WheelEvents : WheelEvent(e)
    \/ AnimationFrame
    \/ \E e \in PointerEvents : onPointerDown(e)
    \/ \E e \in PointerEvents : onPointerMove(e)
    \/ \E e \in PointerEvents : onPointerUp(e)
    \/ \E m \in MiniMapEvents : onMiniMapClick(m)
    \/ \E q \in SearchQueries : onSearchChange(q)
    \/ \E r \in Range(searchView.results) : commitSearch(r)

SpecDisabled == InitDisabled /\ [][NextDisabled]_vars

\* C29 (as claimed): while disabled is true no user interaction changes the
\* viewport, the selection or the collapsed ids, and none of their change
\* callbacks fires.
C29_DisabledIsInert ==
    [][ (props.disabled /\ lastOp'.name # "effects") =>
            /\ Viewport' = Viewport
            /\ SelectedId' = SelectedId
            /\ CollapsedIds' = CollapsedIds
            /\ \A i \in 1..Len(calls') :
                calls'[i].cb \notin {"onViewportChange", "onSelectionChange",
                                     "onCollapsedChange"}
      ]_vars

-----------------------------------------------------------------------------
(* Node selection: clicks on the rendered nodes of every hierarchy within the
   bounds, selectable or not, the selection controlled or not, with a first
   selection or without; the carets and expand_all change what is rendered *)

SelectProps ==
    { [ScopeBase EXCEPT !.selectable = s, !.selectedControlled = c, !.defaultSelectedId = d] :
      s \in BOOLEAN, c \in BOOLEAN, d \in {null, toKey(2)} }

InitSelect ==
    /\ \E t \in Trees : tree = [n |-> t.n, kids |-> t.kids, sparse |-> FALSE]
    /\ props \in SelectProps
    /\ collapsedSet = {}
    /\ \E r \in {Rendered(tree, props, {})} :
        /\ flat = r.flat
        /\ computedNodes = r.computedNodes
        /\ links = r.links
        /\ scopeView = ScopeView(r.computedNodes, r.links, props.defaultSelectedId, props)
    /\ pc = "idle"
    /\ ViewAtRest(props)
    /\ selectedProp = props.defaultSelectedId
    /\ collapsedUncontrolled = props.defaultCollapsedIds
    /\ collapsedProp = props.defaultCollapsedIds
    /\ searchView = [query |-> <<>>, open |-> FALSE, results |-> <<>>]

NextSelect ==
    \/ \E n \in RenderedNodes : selectNode(n)
    \/ \E n \in RenderedNodes : CaretClick(n)
    \/ expandAll

SpecSelect == InitSelect /\ [][NextSelect]_vars

\* C30: selectNode(id) on a node that is not selected asks for id as the
\* selection and passes the node to onSelectionChange; on the selected node it
\* asks for null and passes no node; the selection becomes the value asked for
\* when uncontrolled, and is the parent's prop (kept or adopted) when
\* controlled, so at most one rendered node is selected; when selectable is
\* false no step changes the selection or calls onSelectionChange.
C30_SelectToggles ==
    [][ /\ lastOp'.name = "selectNode" =>
            LET id == lastOp'.id
                next == IF SelectedId = id THEN null ELSE id
            IN /\ props.selectable
               /\ Len(calls') = 1
               /\ calls'[1].cb = "onSelectionChange"
               /\ calls'[1].arg = next
               /\ calls'[1].node = (IF SelectedId = id THEN Undefined ELSE NodeOfKey(id))
               /\ ~props.selectedControlled => SelectedId' = next
               /\ props.selectedControlled => SelectedId' \in {SelectedId, next}
               /\ CollapsedIds' = CollapsedIds
               /\ Cardinality({i \in 1..Len(computedNodes') :
                                 computedNodes'[i].id = scopeView'.selectedKey}) <= 1
        /\ ~props.selectable =>
            /\ SelectedId' = SelectedId
            /\ \A i \in 1..Len(calls') : calls'[i].cb # "onSelectionChange"
      ]_vars

\* a click on the node selected by an earlier click: the selection is null
\* again and the callback got null and no node
C30_Witness ==
    /\ lastOp.name = "selectNode"
    /\ ~props.selectedControlled
    /\ props.defaultSelectedId = null
    /\ SelectedId = null
    /\ calls = << [cb |-> "onSelectionChange", arg |-> null, node |-> Undefined] >>

=============================================================================
